---- MODULE Spec2Model ----
(***************************************************************************)
(* Relay / oscilloscope validation suite (example_2): the waveform         *)
(* analyser, the oscilloscope driver's connection and block framing, the   *)
(* query read loop, and the trigger-synchronised edge capture.             *)
(*                                                                         *)
(* Each subsystem has its own specification over the shared variables:     *)
(*   SpecAnalyze  analyze_waveform / detect_bounce   (waveform_utils.py)   *)
(*   SpecFraming  capture_waveform                   (rigol_driver.py)     *)
(*   SpecConnect  connect / query / disconnect       (rigol_driver.py)     *)
(*   SpecCapture  capture_relay_transition, test_relay_response_profile    *)
(*   SpecPurity   analyze_waveform called twice      (waveform_utils.py)   *)
(*   SpecStream   capture_waveform, endless sender   (rigol_driver.py)     *)
(*   SpecQuery    query's read loop                  (rigol_driver.py)     *)
(*   SpecExtreme  analyze_waveform, overflowing sums (waveform_utils.py)   *)
(*   SpecHanded   connect's socket hand-over         (rigol_driver.py)     *)
(*   SpecDisconnect  disconnect                      (rigol_driver.py)     *)
(*   SpecRelay    the Tasmota relay commands         (tasmota_tests.py)    *)
(*   SpecMeasure  the line-quality measurement       (spec section 4.5)    *)
(*   SpecSession  setup, queries and a capture on one socket               *)
(*   SpecPower    get_power_state / set_power        (tasmota_driver.py)   *)
(*   SpecFirmware check_firmware_version             (tasmota_tests.py)    *)
(*   SpecFlow     the two example flows              (example_flow.py)     *)
(* Python indices are kept 0-based: At(s, i) reads s[i].                   *)
(***************************************************************************)
EXTENDS Integers, Sequences, FiniteSets, TLC

VARIABLES
    \* ---- waveform analysis
    voltage,        \* the voltage samples handed to analyze_waveform
    time,           \* the parallel time axis
    analysis,       \* the dict analyze_waveform returned
    apc,            \* "input" before the call, "done" after it, "again" after a
                    \* second call on the same arrays
    \* ---- RigolOscilloscopeDriver
    socket,         \* self.socket: "None" or "open"
    connected,      \* self.connected
    drvLog,         \* the driver calls made so far with their return values
    \* ---- capture_waveform
    wire,           \* the bytes the instrument delivers after :WAV:DATA?
    wireEnd,        \* what recv does once they are consumed: "close" or "timeout"
    block,          \* what the instrument meant to send (read by the properties only)
    pos,            \* how many bytes of wire recv has handed out
    response,       \* the accumulated response
    header_read,
    data_length,
    preamble,       \* the :WAV:PRE? reply: [fields, numeric, scale]
    sent,           \* the commands capture_waveform has sent, in order
    splitHeader,    \* some recv ended inside the length header
    cwresult,       \* [ok, codes]: the returned samples, ok = FALSE for None
    waveform,       \* the returned rows (time, voltage), scaled by the preamble
    cwpc,           \* "start", "reading", "done" ("idle" outside SpecFraming)
    \* ---- edge capture: scope.capture_relay_transition, test_relay_response_profile
    cvariant,       \* which one is running: "scope", "driver" or "profile"
    phase,          \* where the test is: "connect", "scope", "initial", "prep",
                    \* "rising", "falling", "finish", "done"
    stage,          \* where the current edge is: an element of EdgeOrder
    clog,           \* the device calls of this run, in order
    polls,          \* status polls made for the current edge
    sawFault,       \* one of them returned the failure sentinel
    scopeArg,       \* "instance", "ip" or "none": how the test gets its oscilloscope
    failure_chance, \* enable_intentional_fail is set
    initial_state,  \* "True", "False" or "None"
    tasmotaOpen,    \* the relay serial link is open
    should_disconnect_oscilloscope,
    edgeRes,        \* results[edge]: "empty", "ok" or the error text
    edgeCause,      \* why the edge failed (read by the properties only)
    cres,           \* what ended the run: the return value / failure code
    ccause,         \* why the run as a whole failed (read by the properties only)
    prev,           \* one (cause, outcome) pair of the run before this one
    \* ---- relay driver: TasmotaSerialDriver
    serial,         \* self.serial: "None" or "open"
    \* ---- test_relay_control (tasmota_tests.py)
    tpc,            \* "initial", "fallback", "set", "verify", "done" ("idle" elsewhere)
    tstep,          \* the operations still to make, the current one first
    tries,          \* attempts made in the current retry loop
    tstate,         \* initial_state: "True", "False" or "None"
    tsource,        \* the reading initial_state was taken from (properties only)
    tlast,          \* the last driver call: what it was given and what it did
    tres,           \* the failure code returned, "pending" before
    \* ---- line-quality measurement (LineQualityMeasurer.measure)
    mpc,            \* "config", "scale", "sample", "timing", "done" ("idle" elsewhere)
    ranges,         \* the RangeSpec keys the configuration holds
    attempts,       \* measurement attempts made
    samples,        \* every sample read, valid or not, in order
    valid_samples,  \* the samples counted as valid, in order
    hwlog,          \* the oscilloscope commands issued, in order
    report,         \* the reported measurements (NoReport before)
    mres,           \* the failure code returned, "pending" before
    \* ---- a driver session on a one-reply-per-query instrument
    spc,            \* "ready" between operations, "reading" inside the block read
    qlog,           \* the query() calls made: the command and what was returned
    nops,           \* driver operations started
    \* ---- one call of set_power or get_power_state (tasmota_driver.py)
    ppc,            \* "m1", "m2", "m3": the query method about to run; "cmd";
                    \* "done" ("idle" elsewhere)
    preq,           \* the call: [fn, state, relay_number]
    pverify,        \* set_power is in its verification read
    plog,           \* the send_command calls made: [cmd, written]
    pseen,          \* the reply to the last of them
    pstate,         \* what get_power_state returned ("pending" before)
    pret,           \* what the call returned ("pending" before)
    \* ---- check_firmware_version (tasmota_tests.py)
    fpc,            \* "input" before the call, "done" after it ("idle" elsewhere)
    version,        \* what driver.get_firmware_version() returned, as characters;
                    \* <<>> stands for None and for the empty string
    min_version,    \* the min_version argument, likewise
    fres,           \* the failure code returned, "pending" before
    fmsg,           \* which message the result carries
    \* ---- the example flows (example_1 and example_2 example_flow.py)
    xpc,            \* "config", "steps", "done" ("idle" elsewhere)
    xflow,          \* "example_1" or "example_2"
    xconfig,        \* the keys of cellConfig and cellSettings, and the truthy ones
    xnext,          \* the position of the next step in the flow's step list
    failure_code,   \* the flow's failure_code variable
    xlog            \* the test steps run and the wrap_up calls made, in order

anaVars == <<voltage, time, analysis, apc>>
drvVars == <<socket, connected, drvLog>>
cwVars  == <<wire, wireEnd, block, pos, response, header_read, data_length,
             preamble, sent, splitHeader, cwresult, waveform, cwpc>>

capVars == <<cvariant, phase, stage, clog, polls, sawFault, scopeArg, failure_chance,
             initial_state, tasmotaOpen, should_disconnect_oscilloscope, edgeRes,
             edgeCause, cres, ccause, prev>>

relVars == <<tpc, tstep, tries, tstate, tsource, tlast, tres>>
tasVars == <<serial, relVars>>

measVars == <<mpc, ranges, attempts, samples, valid_samples, hwlog, report, mres>>
sesVars == <<spc, qlog, nops>>
powVars == <<ppc, preq, pverify, plog, pseen, pstate, pret>>
fwVars == <<fpc, version, min_version, fres, fmsg>>
flowVars == <<xpc, xflow, xconfig, xnext, failure_code, xlog>>
extVars == <<powVars, fwVars, flowVars>>

vars == <<anaVars, drvVars, cwVars, capVars, tasVars, measVars, sesVars, extVars>>

(***************************************************************************)
(* Generic helpers                                                         *)
(***************************************************************************)
Min2(a, b) == IF b < a THEN b ELSE a
Max2(a, b) == IF b > a THEN b ELSE a

At(s, i) == s[i + 1]

RECURSIVE SumSeq(_)
SumSeq(s) == IF s = <<>> THEN 0 ELSE Head(s) + SumSeq(Tail(s))

\* s[a:b] for 0 <= a, 0 <= b (Python clamps both ends to len(s))
PySlice(s, a, b) == SubSeq(s, Min2(a, Len(s)) + 1, Min2(b, Len(s)))

\* np.where(cond)[0][0]: the least index of a set, -1 standing for IndexError
FirstIndex(S) == IF S = {} THEN -1 ELSE CHOOSE i \in S : \A j \in S : i <= j

(***************************************************************************)
(* Waveform analysis (waveform_utils.py).  Voltages are integers; a mean   *)
(* or a threshold is the exact rational [num, den].  den = 0 stands for    *)
(* the float64 values that are no numbers: num = 0 is NaN (the mean of an  *)
(* empty slice, inf - inf), on which every comparison is false, num > 0 is *)
(* +inf and num < 0 is -inf (a sum beyond the float64 range).              *)
(***************************************************************************)
MaxLen == 11
XInc == 2
Window == 10
LowTenths == 1
HighTenths == 9
Levels == {0, 1, 2}

\* the largest float64, and a sample two of which no longer add up to a float64
FloatMax == 100
Huge == 60
NaN == [num |-> 0, den |-> 0]
PosInf == [num |-> 1, den |-> 0]
NegInf == [num |-> -1, den |-> 0]
IsNaN(r) == r.den = 0 /\ r.num = 0

Waveforms == UNION {[1..n -> Levels] : n \in 0..MaxLen}

TimeAxis(n) == [i \in 1..n |-> (i - 1) * XInc]

\* np.mean(voltage[:10]) and np.mean(voltage[-10:])
\* np.mean of a slice: the sum of samples of one sign overflows, in whatever
\* order they are added, exactly when the exact sum is out of range
MeanOf(s) ==
    IF s = <<>> THEN NaN
    ELSE IF SumSeq(s) > FloatMax THEN PosInf
    ELSE IF SumSeq(s) < -FloatMax THEN NegInf
    ELSE [num |-> SumSeq(s), den |-> Len(s)]

MeanHead(v) == MeanOf(PySlice(v, 0, Window))
MeanTail_SameAsHead(v) == MeanOf(PySlice(v, 0, Window))
MeanTail(v) == MeanOf(PySlice(v, Max2(0, Len(v) - Window), Len(v)))

\* comparisons of a sample x with a rational t, and of two rationals
Gt(x, t) == ~IsNaN(t) /\ x * t.den > t.num
Lt(x, t) == ~IsNaN(t) /\ x * t.den < t.num
Ge(x, t) == ~IsNaN(t) /\ x * t.den >= t.num
Le(x, t) == ~IsNaN(t) /\ x * t.den <= t.num
RatLt(a, b) ==
    /\ ~IsNaN(a) /\ ~IsNaN(b)
    /\ IF a.den = 0 /\ b.den = 0 THEN a.num < b.num
       ELSE a.num * b.den < b.num * a.den
RatLe(a, b) ==
    /\ ~IsNaN(a) /\ ~IsNaN(b)
    /\ IF a.den = 0 /\ b.den = 0 THEN a.num <= b.num
       ELSE a.num * b.den <= b.num * a.den

\* v_min + tenths/10 * (v_max - v_min), v_min <= v_max.  Two finite means
\* share the denominator.  With v_min infinite the result is NaN: -inf + inf,
\* or inf - inf for the range; with only v_max infinite it is v_max
Along(vmin, vmax, tenths) ==
    IF IsNaN(vmin) \/ IsNaN(vmax) \/ vmin.den = 0 THEN NaN
    ELSE IF vmax.den = 0 THEN vmax
    ELSE [num |-> 10 * vmin.num + tenths * (vmax.num - vmin.num), den |-> 10 * vmin.den]

Threshold_Swapped(vmin, vmax, tenths) == Along(vmin, vmax, 10 - tenths)
Threshold_AtMeans(vmin, vmax, tenths) == Along(vmin, vmax, IF tenths > 5 THEN 10 ELSE 0)
Threshold(vmin, vmax, tenths) == Along(vmin, vmax, tenths)

\* the bounce scan starts right after the main transition
BounceFirst_FromStart(end_idx) == 1
BounceFirst(end_idx) == end_idx + 1

\* one iteration of either for loop of detect_bounce
Dropped(v, i, high, low, is_rising) ==
    IF is_rising THEN Lt(At(v, i), high) /\ Ge(At(v, i - 1), high)
                 ELSE Gt(At(v, i), low) /\ Le(At(v, i - 1), low)
Recovered_WhileBack(v, i, high, low, is_rising) ==
    IF is_rising THEN Ge(At(v, i), high) ELSE Le(At(v, i), low)
Recovered(v, i, high, low, is_rising) ==
    IF is_rising THEN Ge(At(v, i), high) /\ Lt(At(v, i - 1), high)
                 ELSE Le(At(v, i), low) /\ Gt(At(v, i - 1), low)

RECURSIVE BounceScan(_, _, _, _, _, _, _, _)
BounceScan(v, i, high, low, is_rising, bounce_count, bounce_start, regions) ==
    IF i >= Len(v) - 1 THEN regions
    ELSE LET drop   == Dropped(v, i, high, low, is_rising)
             count1 == IF drop THEN bounce_count + 1 ELSE bounce_count
             start1 == IF drop THEN i ELSE bounce_start
             back   == count1 > 0 /\ Recovered(v, i, high, low, is_rising)
             regs1  == IF back THEN Append(regions, <<start1, i>>) ELSE regions
         IN BounceScan(v, i + 1, high, low, is_rising, count1, start1, regs1)

detect_bounce(v, t, end_idx, high_threshold, low_threshold, is_rising) ==
    BounceScan(v, BounceFirst(end_idx), high_threshold, low_threshold,
               is_rising, 0, 0, <<>>)

RECURSIVE SumDurations(_, _)
SumDurations(t, regions) ==
    IF regions = <<>> THEN 0
    ELSE (At(t, Head(regions)[2]) - At(t, Head(regions)[1]))
         + SumDurations(t, Tail(regions))

\* the two threshold searches of analyze_waveform
StartIdx(v, high, low, is_rising) ==
    IF is_rising THEN FirstIndex({i \in 0..(Len(v) - 1) : Gt(At(v, i), low)})
                 ELSE FirstIndex({i \in 0..(Len(v) - 1) : Lt(At(v, i), high)})
EndIdx_FallingAtHigh(v, high, low, is_rising) ==
    IF is_rising THEN FirstIndex({i \in 0..(Len(v) - 1) : Gt(At(v, i), high)})
                 ELSE FirstIndex({i \in 0..(Len(v) - 1) : Lt(At(v, i), high)})
EndIdx(v, high, low, is_rising) ==
    IF is_rising THEN FirstIndex({i \in 0..(Len(v) - 1) : Gt(At(v, i), high)})
                 ELSE FirstIndex({i \in 0..(Len(v) - 1) : Lt(At(v, i), low)})

analyze_waveform(t, v) ==
    LET start_voltage == MeanHead(v)
        end_voltage   == MeanTail(v)
        is_rising     == RatLt(start_voltage, end_voltage)
        v_min  == IF RatLt(end_voltage, start_voltage) THEN end_voltage ELSE start_voltage
        v_max  == IF RatLt(start_voltage, end_voltage) THEN end_voltage ELSE start_voltage
        low_threshold  == Threshold(v_min, v_max, LowTenths)
        high_threshold == Threshold(v_min, v_max, HighTenths)
        start_idx == StartIdx(v, high_threshold, low_threshold, is_rising)
        end_idx   == EndIdx(v, high_threshold, low_threshold, is_rising)
        kind      == IF is_rising THEN "rising" ELSE "falling"
    IN  IF start_idx < 0 \/ end_idx < 0
        THEN [error |-> "Could not find threshold crossings",
              transition_type |-> kind,
              start_voltage |-> start_voltage,
              end_voltage |-> end_voltage,
              thresholds |-> <<low_threshold, high_threshold>>]
        ELSE LET bounce_regions ==
                     detect_bounce(v, t, end_idx, high_threshold, low_threshold, is_rising)
             IN [transition_type |-> kind,
                 transition_time |-> At(t, end_idx) - At(t, start_idx),
                 bounce_count |-> Len(bounce_regions),
                 bounce_duration |-> SumDurations(t, bounce_regions),
                 start_voltage |-> start_voltage,
                 end_voltage |-> end_voltage,
                 thresholds |-> <<low_threshold, high_threshold>>,
                 indices |-> <<start_idx, end_idx>>,
                 bounce_regions |-> bounce_regions]

NoCall == [op |-> "none", expected |-> "None", current |-> "None", sent |-> FALSE,
           ret |-> "None"]

IdleRelay ==
    /\ tpc = "idle"
    /\ tstep = 0
    /\ tries = 0
    /\ tstate = "None"
    /\ tsource = "none"
    /\ tlast = NoCall
    /\ tres = "pending"

\* TasmotaSerialDriver.__init__ (tasmota_driver.py:15-27)
IdleTasmota == serial = "None" /\ IdleRelay

NoStats == [count |-> 0, sum |-> 0, sumsq |-> 0, min |-> 0, max |-> 0]
NoReport == [frequency |-> <<>>, vrms |-> <<>>, widths |-> <<>>, duty_cycle |-> -1,
             stability |-> NoStats, attached |-> <<>>]

IdleMeasure ==
    /\ mpc = "idle"
    /\ ranges = {}
    /\ attempts = 0
    /\ samples = <<>>
    /\ valid_samples = <<>>
    /\ hwlog = <<>>
    /\ report = NoReport
    /\ mres = "pending"

IdleSession ==
    /\ spc = "idle"
    /\ qlog = <<>>
    /\ nops = 0

NoReply == [kind |-> "empty", says |-> {}, power |-> "absent"]
NoRequest == [fn |-> "none", state |-> "None", relay_number |-> 0]

IdlePower ==
    /\ ppc = "idle"
    /\ preq = NoRequest
    /\ pverify = FALSE
    /\ plog = <<>>
    /\ pseen = NoReply
    /\ pstate = "pending"
    /\ pret = "pending"

IdleFirmware ==
    /\ fpc = "idle"
    /\ version = <<>>
    /\ min_version = <<>>
    /\ fres = "pending"
    /\ fmsg = "none"

IdleFlow ==
    /\ xpc = "idle"
    /\ xflow = "none"
    /\ xconfig = [config |-> {}, settings |-> {}, truthy |-> {}]
    /\ xnext = 0
    /\ failure_code = "NO_FAILURE"
    /\ xlog = <<>>

IdleRest == IdleMeasure /\ IdleSession /\ IdlePower /\ IdleFirmware /\ IdleFlow

IdleDriver ==
    /\ socket = "None"
    /\ connected = FALSE
    /\ drvLog = <<>>

NoWaveform == [ok |-> FALSE, codes |-> <<>>]

\* the scaling fields of the preamble, in integer units (volts in hundredths)
NoScale == [x_increment |-> 0, x_origin |-> 0, y_increment |-> 0, y_origin |-> 0,
            y_reference |-> 0]

IdleFraming ==
    /\ wire = <<>>
    /\ wireEnd = "close"
    /\ block = [n |-> 0, l |-> 0, kind |-> "none"]
    /\ pos = 0
    /\ response = <<>>
    /\ header_read = FALSE
    /\ data_length = 0
    /\ preamble = [fields |-> 0, numeric |-> FALSE, scale |-> NoScale]
    /\ sent = <<>>
    /\ splitHeader = FALSE
    /\ cwresult = NoWaveform
    /\ waveform = <<>>
    /\ cwpc = "idle"

Edges == {"rising", "falling"}
NoPair == [cause |-> "none", outcome |-> "none"]

IdleCapture ==
    /\ cvariant = "none"
    /\ phase = "idle"
    /\ stage = "idle"
    /\ clog = <<>>
    /\ polls = 0
    /\ sawFault = FALSE
    /\ scopeArg = "none"
    /\ failure_chance = FALSE
    /\ initial_state = "None"
    /\ tasmotaOpen = FALSE
    /\ should_disconnect_oscilloscope = FALSE
    /\ edgeRes = [e \in Edges |-> "empty"]
    /\ edgeCause = [e \in Edges |-> "none"]
    /\ cres = "pending"
    /\ ccause = "none"
    /\ prev = NoPair

InitAnalyze ==
    /\ voltage \in Waveforms
    /\ time = TimeAxis(Len(voltage))
    /\ analysis = <<>>
    /\ apc = "input"

IdleAnalyze ==
    /\ voltage = <<>>
    /\ time = <<>>
    /\ analysis = <<>>
    /\ apc = "idle"

Analyze ==
    /\ apc = "input"
    /\ analysis' = analyze_waveform(time, voltage)
    /\ apc' = "done"
    /\ UNCHANGED <<voltage, time>>
    /\ UNCHANGED <<drvVars, cwVars, capVars, tasVars, measVars, sesVars, extVars>>

\* a second call of analyze_waveform on the same two arrays
Reanalyze_InPlace ==
    /\ apc = "done"
    /\ voltage' = [i \in 1..Len(voltage) |-> voltage[i] - voltage[1]]
    /\ analysis' = analyze_waveform(time, voltage')
    /\ apc' = "again"
    /\ UNCHANGED time
    /\ UNCHANGED <<drvVars, cwVars, capVars, tasVars, measVars, sesVars, extVars>>
Reanalyze ==
    /\ apc = "done"
    /\ analysis' = analyze_waveform(time, voltage)
    /\ apc' = "again"
    /\ UNCHANGED <<voltage, time>>
    /\ UNCHANGED <<drvVars, cwVars, capVars, tasVars, measVars, sesVars, extVars>>

NextAnalyze == Analyze

\* waveforms of full length with samples that make a window sum overflow
ExtremeLevels == {-Huge, 0}

InitExtreme ==
    /\ voltage \in [1..MaxLen -> ExtremeLevels]
    /\ time = TimeAxis(Len(voltage))
    /\ analysis = <<>>
    /\ apc = "input"

StartAnalyze == InitAnalyze /\ IdleDriver /\ IdleFraming /\ IdleCapture /\ IdleTasmota /\ IdleRest

StartExtreme == InitExtreme /\ IdleDriver /\ IdleFraming /\ IdleCapture /\ IdleTasmota /\ IdleRest

SpecAnalyze == StartAnalyze /\ [][NextAnalyze]_vars

SpecExtreme == StartExtreme /\ [][NextAnalyze]_vars

\* two calls in a row on the same arrays, on waveforms of up to PureLen samples
PureLen == 6

InitPurity ==
    /\ voltage \in UNION {[1..n -> Levels] : n \in 0..PureLen}
    /\ time = TimeAxis(Len(voltage))
    /\ analysis = <<>>
    /\ apc = "input"

NextPurity == Analyze \/ Reanalyze

StartPurity == InitPurity /\ IdleDriver /\ IdleFraming /\ IdleCapture /\ IdleTasmota /\ IdleRest

SpecPurity == StartPurity /\ [][NextPurity]_vars

AnalysisOk == apc = "done" /\ "error" \notin DOMAIN analysis

(***************************************************************************)
(* C9 (as claimed): every successful analysis has start index strictly     *)
(* below end index.                                                        *)
(***************************************************************************)
C9_StartStrictlyBeforeEnd ==
    AnalysisOk => analysis.indices[1] < analysis.indices[2]

\* C9 (as amended): every successful analysis has start index <= end index;
\* the two are equal when a single sample crosses both thresholds.
C9_StartNotAfterEnd ==
    AnalysisOk => analysis.indices[1] <= analysis.indices[2]

C9_Witness ==
    /\ AnalysisOk
    /\ analysis.indices[1] < analysis.indices[2]
    /\ analysis.transition_type = "rising"

(***************************************************************************)
(* C10: on every successful analysis each bounce region (s, e) lies after  *)
(* the main transition: s > end_index and e > s.                           *)
(***************************************************************************)
C10_BounceAfterTransition ==
    AnalysisOk =>
        \A k \in 1..Len(analysis.bounce_regions) :
            /\ analysis.bounce_regions[k][1] > analysis.indices[2]
            /\ analysis.bounce_regions[k][2] > analysis.bounce_regions[k][1]

C10_Witness ==
    /\ AnalysisOk
    /\ Len(analysis.bounce_regions) >= 1
    /\ \E i \in 1..analysis.indices[2] :
           Dropped(voltage, i, analysis.thresholds[2], analysis.thresholds[1],
                   analysis.transition_type = "rising")

\* the samples after the main transition at which a rising waveform falls
\* below the high threshold, and those at which it is back at or above it
DropIndices ==
    {i \in (analysis.indices[2] + 1)..(Len(voltage) - 1) :
        Lt(At(voltage, i), analysis.thresholds[2])
        /\ Ge(At(voltage, i - 1), analysis.thresholds[2])}
RecoveryIndices ==
    {i \in (analysis.indices[2] + 1)..(Len(voltage) - 1) :
        Ge(At(voltage, i), analysis.thresholds[2])
        /\ Lt(At(voltage, i - 1), analysis.thresholds[2])}

RECURSIVE SumTimes(_)
SumTimes(S) ==
    IF S = {} THEN 0
    ELSE LET i == CHOOSE x \in S : TRUE IN At(time, i) + SumTimes(S \ {i})

(***************************************************************************)
(* C11 (as claimed): a rising waveform that after its main transition      *)
(* drops below high_threshold k times and comes back each time before the  *)
(* capture ends is reported with bounce_count = k and bounce_duration the  *)
(* sum of time[recovery] - time[drop] over the k dips.                     *)
(***************************************************************************)
C11_CountsEveryDip ==
    (/\ AnalysisOk
     /\ analysis.transition_type = "rising"
     /\ Cardinality(RecoveryIndices) = Cardinality(DropIndices)) =>
        /\ analysis.bounce_count = Cardinality(DropIndices)
        /\ analysis.bounce_duration = SumTimes(RecoveryIndices) - SumTimes(DropIndices)

\* v -> c - v on every sample, for the constants c tried
MirrorConstants == {2, 5}
Mirror(v, c) == [i \in 1..Len(v) |-> c - v[i]]

(***************************************************************************)
(* C12: the mirror image c - v of a rising waveform, on the same time      *)
(* axis, is analysed as falling with the same start and end index, the     *)
(* same transition_time, the same bounce regions, bounce_count and         *)
(* bounce_duration.                                                        *)
(***************************************************************************)
C12_MirrorIsFallingTwin ==
    (AnalysisOk /\ analysis.transition_type = "rising") =>
        \A c \in MirrorConstants :
            LET m == analyze_waveform(time, Mirror(voltage, c))
            IN /\ "error" \notin DOMAIN m
               /\ m.transition_type = "falling"
               /\ m.indices = analysis.indices
               /\ m.transition_time = analysis.transition_time
               /\ m.bounce_regions = analysis.bounce_regions
               /\ m.bounce_count = analysis.bounce_count
               /\ m.bounce_duration = analysis.bounce_duration

\* a rising waveform with a transition over several samples and a bounce
C12_Witness ==
    /\ AnalysisOk
    /\ analysis.transition_type = "rising"
    /\ analysis.indices[1] < analysis.indices[2]
    /\ analysis.bounce_count >= 1
    /\ analyze_waveform(time, Mirror(voltage, 2)).transition_type = "falling"

\* a noiseless ramp: no sample below the one before it, the last above the first
CleanRamp ==
    /\ Len(voltage) >= 2
    /\ \A i \in 1..(Len(voltage) - 1) : voltage[i] <= voltage[i + 1]
    /\ voltage[1] < voltage[Len(voltage)]

\* the first sample above a level
FirstAbove(level) ==
    CHOOSE i \in 0..(Len(voltage) - 1) :
        /\ Gt(At(voltage, i), level)
        /\ \A j \in 0..(i - 1) : ~Gt(At(voltage, j), level)

RampVerdict ==
    /\ AnalysisOk
    /\ analysis.transition_type = "rising"
    /\ analysis.bounce_count = 0
    /\ analysis.transition_time =
          XInc * (FirstAbove(analysis.thresholds[2]) - FirstAbove(analysis.thresholds[1]))

(***************************************************************************)
(* C13 (as claimed): every noiseless monotonically increasing waveform     *)
(* with uniformly spaced samples is analysed as rising, with bounce_count  *)
(* 0 and transition_time the time from the first sample above the 10%      *)
(* level to the first sample above the 90% level.                          *)
(***************************************************************************)
C13_CleanRampIsRising ==
    (apc = "done" /\ CleanRamp) => RampVerdict

\* both means of the result are numbers: neither window sum left the float64
\* range
MeansInRange == analysis.start_voltage.den > 0 /\ analysis.end_voltage.den > 0

\* C13 (as amended): the same for a noiseless monotonically increasing
\* waveform of more than Window samples, so that the window of the first ten
\* samples and that of the last ten differ, with both means numbers
C13_LongCleanRampIsRising ==
    (apc = "done" /\ CleanRamp /\ Len(voltage) > Window /\ MeansInRange) => RampVerdict

\* a ramp of more than ten samples whose transition spans several samples
C13_Witness ==
    /\ apc = "done"
    /\ CleanRamp
    /\ Len(voltage) > Window
    /\ AnalysisOk
    /\ analysis.transition_time > 0

(***************************************************************************)
(* C14 (as claimed): whatever the input waveform, and also when the        *)
(* analysis reports an error, the thresholds of the result satisfy         *)
(* low_threshold <= high_threshold.                                        *)
(***************************************************************************)
C14_LowNotAboveHigh ==
    apc = "done" => RatLe(analysis.thresholds[1], analysis.thresholds[2])

\* C14 (as amended): the same for every waveform with at least one sample
\* whose means are numbers; on the empty waveform both means are NaN and so
\* are both thresholds, and so they are after a window sum that overflowed
C14_LowNotAboveHighNonEmpty ==
    (apc = "done" /\ Len(voltage) > 0 /\ MeansInRange) =>
        RatLe(analysis.thresholds[1], analysis.thresholds[2])

\* an analysis that reported an error on a waveform with samples
C14_Witness ==
    /\ apc = "done"
    /\ Len(voltage) > 0
    /\ "error" \in DOMAIN analysis
    /\ RatLe(analysis.thresholds[1], analysis.thresholds[2])

MaxOps == 3
Newline == 10
IdnReplies == {"RIGOL TECHNOLOGIES,DS1054Z", "ACME,SCOPE", "None"}
RigolTexts == {"RIGOL TECHNOLOGIES,DS1054Z"}

\* is_connected(): lines 88-94
is_connected == connected /\ socket # "None"

\* "RIGOL" in idn
HasRigol(text) == text \in RigolTexts

\* lines 131-133: query refuses when is_connected() is false, before sending
QueryReturns(conn, sock, reply) == IF conn /\ sock # "None" THEN reply ELSE "None"

PyBool(b) == IF b THEN "True" ELSE "False"

\* the states a caller holds a driver in: connected, or as built by __init__
HandedIn == {<<"open", TRUE>>, <<"None", FALSE>>}

\* __init__
InitConnect ==
    /\ socket = "None"
    /\ connected = FALSE
    /\ drvLog = <<>>

\* connect(): lines 54-78
DrvConnect_KeepSocket ==
    /\ Len(drvLog) < MaxOps
    /\ \E accepted \in BOOLEAN, idnReply \in IdnReplies :
          LET idn == QueryReturns(connected, "open", idnReply)
              ret == accepted /\ idn # "None" /\ HasRigol(idn)
          IN /\ socket' = IF accepted THEN "open" ELSE "None"
             /\ connected' = IF ~accepted THEN connected ELSE ret
             /\ drvLog' = Append(drvLog, [op |-> "connect", accepted |-> accepted,
                                          reply |-> idnReply, ret |-> PyBool(ret)])
    /\ UNCHANGED <<anaVars, cwVars, capVars, tasVars, measVars, sesVars, extVars>>
DrvConnect ==
    /\ Len(drvLog) < MaxOps
    /\ \E accepted \in BOOLEAN, idnReply \in IdnReplies :
          LET idn == QueryReturns(connected, "open", idnReply)
              ret == accepted /\ idn # "None" /\ HasRigol(idn)
          IN /\ socket' = IF ret THEN "open" ELSE "None"
             /\ connected' = IF ~accepted THEN connected ELSE ret
             /\ drvLog' = Append(drvLog, [op |-> "connect", accepted |-> accepted,
                                          reply |-> idnReply, ret |-> PyBool(ret)])
    /\ UNCHANGED <<anaVars, cwVars, capVars, tasVars, measVars, sesVars, extVars>>

\* disconnect(): lines 80-86
DrvDisconnect_NoClose ==
    /\ Len(drvLog) < MaxOps
    /\ UNCHANGED <<socket, connected>>
    /\ drvLog' = Append(drvLog, [op |-> "disconnect", accepted |-> FALSE,
                                 reply |-> "None", ret |-> "None",
                                 conn |-> is_connected])
    /\ UNCHANGED <<anaVars, cwVars, capVars, tasVars, measVars, sesVars, extVars>>
DrvDisconnect ==
    /\ Len(drvLog) < MaxOps
    /\ IF socket # "None"
       THEN socket' = "None" /\ connected' = FALSE
       ELSE UNCHANGED <<socket, connected>>
    /\ drvLog' = Append(drvLog, [op |-> "disconnect", accepted |-> FALSE,
                                 reply |-> "None", ret |-> "None",
                                 conn |-> is_connected])
    /\ UNCHANGED <<anaVars, cwVars, capVars, tasVars, measVars, sesVars, extVars>>

\* is_connected(): lines 88-94
DrvIsConnected ==
    /\ Len(drvLog) < MaxOps
    /\ drvLog' = Append(drvLog, [op |-> "is_connected", accepted |-> FALSE,
                                 reply |-> "None", ret |-> PyBool(is_connected)])
    /\ UNCHANGED <<socket, connected>>
    /\ UNCHANGED <<anaVars, cwVars, capVars, tasVars, measVars, sesVars, extVars>>

\* the commands tried, as bytes: "R", "R\n" and ""
Commands == {<<82>>, <<82, 10>>, <<>>}

Prefixes(bs) == {SubSeq(bs, 1, k) : k \in 0..Len(bs)}

\* lines 110-111: if not command.endswith("\n"): command += "\n"
Frame_AlwaysAppend(command) == Append(command, Newline)
Frame(command) ==
    IF command # <<>> /\ command[Len(command)] = Newline THEN command
    ELSE Append(command, Newline)

\* send_command(): lines 96-119; refused when is_connected() is false; sendall
\* may raise on a dead link after writing any part of the bytes (False)
DrvSend ==
    /\ Len(drvLog) < MaxOps
    /\ \E command \in Commands, linkOk \in BOOLEAN :
          \E wrote \in IF ~is_connected THEN {<<>>}
                        ELSE IF linkOk THEN {Frame(command)}
                        ELSE Prefixes(Frame(command)) :
             drvLog' = Append(drvLog, [op |-> "send_command", accepted |-> linkOk,
                                       reply |-> "None",
                                       ret |-> PyBool(is_connected /\ linkOk),
                                       conn |-> is_connected,
                                       command |-> command, wrote |-> wrote])
    /\ UNCHANGED <<socket, connected>>
    /\ UNCHANGED <<anaVars, cwVars, capVars, tasVars, measVars, sesVars, extVars>>

\* query(): lines 121-169
DrvQuery ==
    /\ Len(drvLog) < MaxOps
    /\ \E reply \in IdnReplies :
          drvLog' = Append(drvLog, [op |-> "query", accepted |-> FALSE, reply |-> reply,
                                    ret |-> QueryReturns(connected, socket, reply)])
    /\ UNCHANGED <<socket, connected>>
    /\ UNCHANGED <<anaVars, cwVars, capVars, tasVars, measVars, sesVars, extVars>>

NextConnect == DrvConnect \/ DrvDisconnect \/ DrvIsConnected \/ DrvSend \/ DrvQuery

StartConnect == InitConnect /\ IdleAnalyze /\ IdleFraming /\ IdleCapture /\ IdleTasmota /\ IdleRest

SpecConnect == StartConnect /\ [][NextConnect]_vars

\* the same operations on a driver object in either of the states its callers
\* hold it in: as built by __init__, or with connected set and a socket open
InitHanded ==
    /\ \E h \in HandedIn : socket = h[1] /\ connected = h[2]
    /\ drvLog = <<>>

StartHanded == InitHanded /\ IdleAnalyze /\ IdleFraming /\ IdleCapture /\ IdleTasmota /\ IdleRest

SpecHanded == StartHanded /\ [][NextConnect]_vars

(***************************************************************************)
(* C2 (as claimed): on a driver built by __init__, a connect() whose TCP   *)
(* connection is accepted and whose *IDN? would be answered with a text    *)
(* containing RIGOL returns True and leaves is_connected() true.           *)
(***************************************************************************)
C2_ConnectSucceedsOnRigol ==
    \A k \in 1..Len(drvLog) :
        (/\ drvLog[k].op = "connect"
         /\ drvLog[k].accepted
         /\ HasRigol(drvLog[k].reply)
         /\ \A j \in 1..(k - 1) : drvLog[j].op # "connect")
        => /\ drvLog[k].ret = "True"
           /\ (k = Len(drvLog) => is_connected)

\* the last connect() returned True and no disconnect() came after it
Verified ==
    \E k \in 1..Len(drvLog) :
        /\ drvLog[k].op = "connect"
        /\ drvLog[k].ret = "True"
        /\ \A j \in (k + 1)..Len(drvLog) : drvLog[j].op \notin {"connect", "disconnect"}

(***************************************************************************)
(* C19: the driver is never partially connected.  Right after a connect()  *)
(* that returned False the driver holds no socket and is_connected() is    *)
(* false, whether the TCP connection was refused or the identification     *)
(* failed; and in every state is_connected() true implies an open socket   *)
(* whose identification was verified.                                      *)
(***************************************************************************)
C19_NeverPartiallyConnected ==
    /\ (/\ Len(drvLog) > 0
        /\ drvLog[Len(drvLog)].op = "connect"
        /\ drvLog[Len(drvLog)].ret = "False")
       => (socket = "None" /\ ~is_connected)
    /\ is_connected => (socket = "open" /\ Verified)
    /\ connected => Verified

\* a connect() whose TCP connection was accepted has just returned False,
\* after an earlier connect() that was refused
C19_Witness ==
    /\ Len(drvLog) >= 2
    /\ drvLog[Len(drvLog)].op = "connect"
    /\ drvLog[Len(drvLog)].accepted
    /\ drvLog[Len(drvLog)].ret = "False"
    /\ drvLog[1].op = "connect"
    /\ ~drvLog[1].accepted
    /\ socket = "None"

(***************************************************************************)
(* Both drivers' connect and disconnect, called in any order.  The calls   *)
(* on the relay driver (TasmotaSerialDriver, tasmota_driver.py) are logged *)
(* in drvLog as well, under "tasmota." names.                              *)
(***************************************************************************)
\* what the device does with the 'Status 0' line that connect sends: the
\* write fails, nothing comes back, text without a brace, a JSON object, or
\* the empty JSON object
Status0Outcomes == {"write_failed", "silent", "text", "json", "empty_json"}

\* TasmotaSerialDriver.send_command (tasmota_driver.py:96-145) on an open
\* port: {} after an exception, the parsed object when the reply holds a
\* brace, {"raw_response": response} otherwise, also for the empty response
send_command(outcome) ==
    CASE outcome = "write_failed" -> "{}"
      [] outcome = "silent"       -> "raw_empty"
      [] outcome = "text"         -> "raw_text"
      [] outcome = "json"         -> "object"
      [] outcome = "empty_json"   -> "{}"

\* bool() of a dict: only the empty dict is false
Truthy(result) == result # "{}"

\* TasmotaSerialDriver.connect (tasmota_driver.py:29-78): what it returns and
\* whether it leaves the port open.  Only serial.SerialException is caught,
\* and its handler returns False without closing: raised by serial.Serial the
\* port never opened, raised by the buffer resets after it the port stays open.
\* Past that, `if response:` decides: True and open, or disconnect() and False
TasmotaConnects ==
    { [how |-> "open_failed", ret |-> FALSE, open |-> FALSE],
      [how |-> "init_failed", ret |-> FALSE, open |-> TRUE] }
    \cup { [how |-> o, ret |-> Truthy(send_command(o)), open |-> Truthy(send_command(o))] :
               o \in Status0Outcomes }

\* TasmotaSerialDriver.is_connected: lines 88-94
tasmota_is_connected == serial = "open"

\* TasmotaSerialDriver.connect: lines 29-78.  serial.Serial raising leaves
\* self.serial as it was; an exception after it leaves the new port open; an
\* empty reply goes through disconnect()
TasConnect ==
    /\ Len(drvLog) < MaxOps
    /\ \E c \in TasmotaConnects :
          /\ serial' = CASE c.how = "open_failed" -> serial
                          [] c.open              -> "open"
                          [] OTHER               -> "None"
          /\ drvLog' = Append(drvLog, [op |-> "tasmota.connect", accepted |-> c.open,
                                       reply |-> c.how, ret |-> PyBool(c.ret),
                                       conn |-> tasmota_is_connected])
    /\ UNCHANGED <<socket, connected>>
    /\ UNCHANGED <<anaVars, cwVars, capVars, relVars, measVars, sesVars, extVars>>

\* TasmotaSerialDriver.disconnect: lines 80-86
TasDisconnect ==
    /\ Len(drvLog) < MaxOps
    /\ serial' = IF tasmota_is_connected THEN "None" ELSE serial
    /\ drvLog' = Append(drvLog, [op |-> "tasmota.disconnect", accepted |-> FALSE,
                                 reply |-> "None", ret |-> "None",
                                 conn |-> tasmota_is_connected])
    /\ UNCHANGED <<socket, connected>>
    /\ UNCHANGED <<anaVars, cwVars, capVars, relVars, measVars, sesVars, extVars>>

InitDisconnect ==
    /\ InitHanded
    /\ serial \in {"None", "open"}
    /\ IdleRelay

NextDisconnect == DrvConnect \/ DrvDisconnect \/ TasConnect \/ TasDisconnect

StartDisconnect == InitDisconnect /\ IdleAnalyze /\ IdleFraming /\ IdleCapture /\ IdleRest

SpecDisconnect == StartDisconnect /\ [][NextDisconnect]_vars

(***************************************************************************)
(* C22: disconnect() is idempotent for both drivers.  On a driver that is  *)
(* not connected it changes nothing; after any disconnect() call           *)
(* is_connected() is false, so a second disconnect() leaves the state as   *)
(* the first one left it.                                                  *)
(***************************************************************************)
C22_DisconnectIdempotent ==
    [][Len(drvLog') = Len(drvLog) + 1 =>
          LET e == drvLog'[Len(drvLog')]
          IN /\ e.op = "disconnect" =>
                   /\ ~(connected' /\ socket' # "None")
                   /\ ~is_connected => (socket' = socket /\ connected' = connected)
             /\ e.op = "tasmota.disconnect" =>
                   /\ serial' # "open"
                   /\ ~tasmota_is_connected => serial' = serial]_vars

\* the oscilloscope driver was disconnected twice, the first call on a
\* connected driver, and the relay driver was disconnected while connected
C22_Witness ==
    /\ Len(drvLog) = 3
    /\ \E i, j, k \in 1..3 :
          /\ i < j
          /\ drvLog[i].op = "disconnect" /\ drvLog[i].conn
          /\ drvLog[j].op = "disconnect" /\ ~drvLog[j].conn
          /\ drvLog[k].op = "tasmota.disconnect" /\ drvLog[k].conn
    /\ socket = "None"
    /\ serial = "None"

(***************************************************************************)
(* C33 (as claimed): TasmotaSerialDriver.connect() returns True only if    *)
(* the device answered the 'Status 0' verification command; when the port  *)
(* opens and the device sends no data at all, connect() returns False and  *)
(* leaves the driver disconnected.                                         *)
(***************************************************************************)
C33_ConnectNeedsAnAnswer ==
    \A i \in 1..Len(drvLog) :
        drvLog[i].op = "tasmota.connect" =>
            /\ drvLog[i].ret = "True" => drvLog[i].reply \in {"text", "json"}
            /\ drvLog[i].reply = "silent" =>
                   /\ drvLog[i].ret = "False"
                   /\ i = Len(drvLog) => ~tasmota_is_connected

(***************************************************************************)
(* C21: send_command writes the command followed by exactly one line       *)
(* terminator, appended only when the command does not already end with    *)
(* it, and returns True; when the driver is not connected it writes        *)
(* nothing and returns False; when the write fails it returns False.  It   *)
(* always returns one of the two.                                          *)
(***************************************************************************)
C21_SendCommandContract ==
    \A k \in 1..Len(drvLog) :
        drvLog[k].op = "send_command" =>
            LET e == drvLog[k]
                ended == e.command # <<>> /\ e.command[Len(e.command)] = Newline
            IN /\ e.ret \in {"True", "False"}
               /\ e.ret = "True" <=> (e.conn /\ e.accepted)
               /\ ~e.conn => e.wrote = <<>>
               /\ e.ret = "True" =>
                     /\ Len(e.wrote) = Len(e.command) + (IF ended THEN 0 ELSE 1)
                     /\ SubSeq(e.wrote, 1, Len(e.command)) = e.command
                     /\ e.wrote[Len(e.wrote)] = Newline

\* a command without the terminator and one with it were sent successfully,
\* then a write failed
C21_Witness ==
    /\ Len(drvLog) = 3
    /\ \E i, j \in 1..2 :
          /\ drvLog[i].op = "send_command" /\ drvLog[i].ret = "True"
          /\ drvLog[i].command = <<82>> /\ drvLog[i].wrote = <<82, 10>>
          /\ drvLog[j].op = "send_command" /\ drvLog[j].ret = "True"
          /\ drvLog[j].command = <<82, 10>> /\ drvLog[j].wrote = <<82, 10>>
    /\ drvLog[3].op = "send_command"
    /\ drvLog[3].conn
    /\ ~drvLog[3].accepted
    /\ drvLog[3].ret = "False"

(***************************************************************************)
(* Trigger-synchronised edge capture: scope.capture_relay_transition       *)
(* (scope.py), the rising / falling phases of test_relay_response_profile  *)
(* (tasmota_tests.py) and RigolOscilloscopeDriver.capture_relay_transition *)
(* (rigol_driver.py), which arms and polls but leaves the relay to its     *)
(* caller.  An edge goes through                                           *)
(* the stages of EdgeOrder; the poll loops are bounded by wall-clock time, *)
(* here by MaxPolls polls, and may time out after any poll.                *)
(***************************************************************************)
MaxPolls == 2
StatusReplies == {"STOP", "RUN", "None"}

\* scope.py:295-330 and tasmota_tests.py:989-1021: arm, then actuate, then poll, then fetch
EdgeOrder_ActuateFirst == <<"actuate", "arm", "poll", "fetch">>
EdgeOrder == <<"arm", "actuate", "poll", "fetch">>

FirstStage == EdgeOrder[1]
StageAfter(st) ==
    LET k == CHOOSE i \in 1..Len(EdgeOrder) : EdgeOrder[i] = st
    IN IF k < Len(EdgeOrder) THEN EdgeOrder[k + 1] ELSE "end"

LogEv(ev, edge, arg, ok) == [ev |-> ev, edge |-> edge, arg |-> arg, ok |-> ok]

turn_on == phase = "rising"

\* status.strip() == "STOP" (scope.py:321) and status and "STOP" in status
\* (tasmota_tests.py:1010), on a status that is not None
IsStopped(status) == status = "STOP"

\* the return statements of test_relay_response_profile inside try, with its
\* finally clause (tasmota_tests.py:1240-1244)
ReturnFromTry(code, cause) ==
    /\ cres' = code
    /\ ccause' = cause
    /\ phase' = "done"
    /\ tasmotaOpen' = FALSE
    /\ IF should_disconnect_oscilloscope
       THEN socket' = "None" /\ connected' = FALSE
       ELSE UNCHANGED <<socket, connected>>

\* scope.capture_relay_transition returns
ReturnFromScope(value, cause) ==
    /\ cres' = value
    /\ ccause' = cause
    /\ phase' = "done"
    /\ UNCHANGED <<socket, connected, tasmotaOpen>>

\* the edge of the profile test is over: on to the falling edge, or to the end
EdgeOver(edge, res, cause) ==
    /\ edgeRes' = [edgeRes EXCEPT ![edge] = res]
    /\ edgeCause' = [edgeCause EXCEPT ![edge] = cause]
    /\ phase' = IF edge = "rising" THEN "falling" ELSE "finish"
    /\ stage' = FirstStage
    /\ polls' = 0
    /\ sawFault' = FALSE

StartRun(variant) ==
    /\ cvariant' = variant
    /\ clog' = <<>>
    /\ polls' = 0
    /\ sawFault' = FALSE
    /\ initial_state' = "None"
    /\ should_disconnect_oscilloscope' = FALSE
    /\ edgeRes' = [e \in Edges |-> "empty"]
    /\ edgeCause' = [e \in Edges |-> "none"]
    /\ cres' = "pending"
    /\ ccause' = "none"
    /\ stage' = IF variant = "driver" THEN "arm" ELSE FirstStage
    /\ IF variant \in {"scope", "driver"}
       THEN /\ phase' \in Edges
            /\ scopeArg' = "instance"
            /\ failure_chance' \in (IF variant = "scope" THEN BOOLEAN ELSE {FALSE})
            /\ tasmotaOpen' = (variant = "scope")
            /\ (\E h \in HandedIn : socket' = h[1] /\ connected' = h[2])
       ELSE /\ phase' = "connect"
            /\ scopeArg' \in {"instance", "ip", "none"}
            /\ failure_chance' = FALSE
            /\ tasmotaOpen' = FALSE
            /\ IF scopeArg' = "instance"
               THEN (\E h \in HandedIn : socket' = h[1] /\ connected' = h[2])
               ELSE socket' = "None" /\ connected' = FALSE

InitCapture ==
    /\ cvariant \in {"scope", "profile", "driver"}
    /\ clog = <<>>
    /\ polls = 0
    /\ sawFault = FALSE
    /\ initial_state = "None"
    /\ should_disconnect_oscilloscope = FALSE
    /\ edgeRes = [e \in Edges |-> "empty"]
    /\ edgeCause = [e \in Edges |-> "none"]
    /\ cres = "pending"
    /\ ccause = "none"
    /\ prev = NoPair
    /\ stage = IF cvariant = "driver" THEN "arm" ELSE FirstStage
    /\ drvLog = <<>>
    /\ IF cvariant \in {"scope", "driver"}
       THEN /\ phase \in Edges
            /\ scopeArg = "instance"
            /\ failure_chance \in (IF cvariant = "scope" THEN BOOLEAN ELSE {FALSE})
            /\ tasmotaOpen = (cvariant = "scope")
            /\ (\E h \in HandedIn : socket = h[1] /\ connected = h[2])
       ELSE /\ phase = "connect"
            /\ scopeArg \in {"instance", "ip", "none"}
            /\ failure_chance = FALSE
            /\ tasmotaOpen = FALSE
            /\ IF scopeArg = "instance"
               THEN (\E h \in HandedIn : socket = h[1] /\ connected = h[2])
               ELSE socket = "None" /\ connected = FALSE

\* tasmota_tests.py:916-922
P_ConnectTasmota ==
    /\ cvariant = "profile" /\ phase = "connect"
    /\ \E c \in TasmotaConnects :
          /\ tasmotaOpen' = c.open
          /\ clog' = Append(clog, LogEv("connect", "setup", c.how, c.ret))
          /\ IF c.ret THEN /\ phase' = "scope"
                          /\ UNCHANGED <<cres, ccause>>
                     ELSE /\ phase' = "done"
                          /\ cres' = "CONNECTION_FAILED"
                          /\ ccause' = "setup"
    /\ UNCHANGED <<cvariant, stage, polls, sawFault, scopeArg, failure_chance,
                   initial_state, should_disconnect_oscilloscope, edgeRes, edgeCause, prev>>
    /\ UNCHANGED <<anaVars, drvVars, cwVars, tasVars, measVars, sesVars, extVars>>

\* tasmota_tests.py:924-957
P_AcquireScope ==
    /\ cvariant = "profile" /\ phase = "scope"
    /\ CASE scopeArg = "instance" ->
              /\ phase' = "initial"
              /\ UNCHANGED <<socket, connected, tasmotaOpen, cres, ccause,
                             should_disconnect_oscilloscope>>
         [] scopeArg = "ip" ->
              \E accepted \in BOOLEAN, idnReply \in IdnReplies, setupOk \in BOOLEAN :
                 LET idn == QueryReturns(connected, "open", idnReply)
                     ret == accepted /\ idn # "None" /\ HasRigol(idn)
                 IN IF ret /\ setupOk
                    THEN /\ socket' = "open"
                         /\ connected' = TRUE
                         /\ should_disconnect_oscilloscope' = TRUE
                         /\ phase' = "initial"
                         /\ UNCHANGED <<tasmotaOpen, cres, ccause>>
                    ELSE /\ socket' = "None"
                         /\ connected' = FALSE
                         /\ tasmotaOpen' = FALSE
                         /\ phase' = "done"
                         /\ cres' = "OSCILLOSCOPE_CONNECTION_FAILED"
                         /\ ccause' = "setup"
                         /\ UNCHANGED should_disconnect_oscilloscope
         [] OTHER ->
              /\ tasmotaOpen' = FALSE
              /\ phase' = "done"
              /\ cres' = "OSCILLOSCOPE_CONNECTION_FAILED"
              /\ ccause' = "setup"
              /\ UNCHANGED <<socket, connected, should_disconnect_oscilloscope>>
    /\ UNCHANGED <<cvariant, stage, clog, polls, sawFault, scopeArg, failure_chance,
                   initial_state, edgeRes, edgeCause, prev, drvLog>>
    /\ UNCHANGED <<anaVars, cwVars, tasVars, measVars, sesVars, extVars>>

\* tasmota_tests.py:960-966
P_GetInitial ==
    /\ cvariant = "profile" /\ phase = "initial"
    /\ \E st \in {"True", "False", "None"} :
          /\ initial_state' = st
          /\ IF st = "None"
             THEN ReturnFromTry("RELAY_CONTROL_FAILED", "setup")
             ELSE /\ phase' = "prep"
                  /\ UNCHANGED <<cres, ccause, tasmotaOpen, socket, connected>>
    /\ UNCHANGED <<cvariant, stage, clog, polls, sawFault, scopeArg, failure_chance,
                   should_disconnect_oscilloscope, edgeRes, edgeCause, prev, drvLog>>
    /\ UNCHANGED <<anaVars, cwVars, tasVars, measVars, sesVars, extVars>>

\* tasmota_tests.py:979-987
P_Prep ==
    /\ cvariant = "profile" /\ phase = "prep"
    /\ IF initial_state = "True"
       THEN \E ok \in BOOLEAN :
               /\ clog' = Append(clog, LogEv("set_power", "prep", "OFF", ok))
               /\ IF ok THEN /\ phase' = "rising"
                             /\ UNCHANGED <<cres, ccause, tasmotaOpen, socket, connected>>
                        ELSE ReturnFromTry("RELAY_CONTROL_FAILED", "setup")
       ELSE /\ phase' = "rising"
            /\ UNCHANGED <<clog, cres, ccause, tasmotaOpen, socket, connected>>
    /\ UNCHANGED <<cvariant, stage, polls, sawFault, scopeArg, failure_chance,
                   initial_state, should_disconnect_oscilloscope, edgeRes, edgeCause,
                   prev, drvLog>>
    /\ UNCHANGED <<anaVars, cwVars, tasVars, measVars, sesVars, extVars>>

\* rigol_driver.py:373-374
D_NotConnected ==
    /\ cvariant = "driver" /\ phase \in Edges /\ stage = "arm"
    /\ ~is_connected
    /\ ReturnFromScope("None", "not_connected")
    /\ UNCHANGED <<cvariant, stage, clog, polls, sawFault, scopeArg, failure_chance,
                   initial_state, should_disconnect_oscilloscope, edgeRes, edgeCause,
                   prev, drvLog>>
    /\ UNCHANGED <<anaVars, cwVars, tasVars, measVars, sesVars, extVars>>

\* scope.py:295-300 (sweep single, :SINGle), tasmota_tests.py:989-994, 1048-1053
\* and rigol_driver.py:378-384 (slope, level, :SING); the return values of
\* send_command are not looked at
E_Arm ==
    /\ phase \in Edges /\ stage = "arm"
    /\ cvariant = "driver" => is_connected
    /\ \E linkOk \in BOOLEAN :
          LET ok == is_connected /\ linkOk
          IN clog' = IF cvariant \in {"profile", "driver"}
                     THEN clog \o <<LogEv("slope", phase, IF turn_on THEN "POS" ELSE "NEG", ok),
                                    LogEv("arm", phase, ":SING", ok)>>
                     ELSE Append(clog, LogEv("arm", phase, ":SINGle", ok))
    /\ stage' = IF cvariant = "driver" THEN "poll" ELSE StageAfter("arm")
    /\ UNCHANGED <<cvariant, phase, polls, sawFault, scopeArg, failure_chance,
                   initial_state, tasmotaOpen, should_disconnect_oscilloscope, edgeRes,
                   edgeCause, cres, ccause, prev>>
    /\ UNCHANGED <<anaVars, drvVars, cwVars, tasVars, measVars, sesVars, extVars>>

\* scope.py:302-311 and tasmota_tests.py:996-1002, 1055-1061.  In scope.py the
\* simulated failure calls random.random() with no import of random in scope:
\* NameError, caught at line 332, None
E_Actuate_PollAnyway ==
    /\ phase \in Edges /\ stage = "actuate"
    /\ cvariant # "driver"
    /\ \E ok \in BOOLEAN :
          clog' = Append(clog, LogEv("set_power", phase,
                                     IF turn_on THEN "ON" ELSE "OFF", ok))
    /\ stage' = StageAfter("actuate")
    /\ UNCHANGED <<phase, cres, ccause, tasmotaOpen, socket, connected>>
    /\ UNCHANGED <<cvariant, polls, sawFault, scopeArg, failure_chance, initial_state,
                   should_disconnect_oscilloscope, edgeRes, edgeCause, prev, drvLog>>
    /\ UNCHANGED <<anaVars, cwVars, tasVars, measVars, sesVars, extVars>>
E_Actuate ==
    /\ phase \in Edges /\ stage = "actuate"
    /\ cvariant # "driver"
    /\ IF cvariant = "scope" /\ turn_on /\ failure_chance
       THEN /\ ReturnFromScope("None", "exception")
            /\ UNCHANGED <<clog, stage>>
       ELSE \E ok \in BOOLEAN :
               /\ clog' = Append(clog, LogEv("set_power", phase,
                                             IF turn_on THEN "ON" ELSE "OFF", ok))
               /\ IF ok
                  THEN /\ stage' = StageAfter("actuate")
                       /\ UNCHANGED <<phase, cres, ccause, tasmotaOpen, socket, connected>>
                  ELSE /\ UNCHANGED stage
                       /\ IF cvariant = "scope"
                          THEN ReturnFromScope("None", "actuation")
                          ELSE ReturnFromTry("RELAY_CONTROL_FAILED", "actuation")
    /\ UNCHANGED <<cvariant, polls, sawFault, scopeArg, failure_chance, initial_state,
                   should_disconnect_oscilloscope, edgeRes, edgeCause, prev, drvLog>>
    /\ UNCHANGED <<anaVars, cwVars, tasVars, measVars, sesVars, extVars>>

\* scope.py:319-324, tasmota_tests.py:1008-1013, 1067-1072 and
\* rigol_driver.py:390-395: one status poll.
\* In scope.py a None status makes status.strip() raise: caught, None
E_Poll ==
    /\ phase \in Edges /\ stage = "poll"
    /\ polls < MaxPolls
    /\ \E reply \in StatusReplies :
          LET status == QueryReturns(connected, socket, reply)
          IN /\ clog' = Append(clog, LogEv("poll", phase, status, status # "None"))
             /\ IF cvariant = "scope" /\ status = "None"
                THEN /\ ReturnFromScope("None", "query_fault")
                     /\ UNCHANGED <<stage, polls, sawFault>>
                ELSE /\ IF status # "None" /\ IsStopped(status)
                        THEN stage' = StageAfter("poll") /\ UNCHANGED <<polls, sawFault>>
                        ELSE /\ polls' = polls + 1
                             /\ sawFault' = (sawFault \/ status = "None")
                             /\ UNCHANGED stage
                     /\ UNCHANGED <<phase, cres, ccause, tasmotaOpen, socket, connected>>
    /\ UNCHANGED <<cvariant, scopeArg, failure_chance, initial_state,
                   should_disconnect_oscilloscope, edgeRes, edgeCause, prev, drvLog>>
    /\ UNCHANGED <<anaVars, cwVars, tasVars, measVars, sesVars, extVars>>

\* scope.py:325-327, tasmota_tests.py:1015-1017, 1074-1076 and
\* rigol_driver.py:397-399: the window is over
E_Timeout ==
    /\ phase \in Edges /\ stage = "poll"
    /\ polls >= 1
    /\ IF cvariant \in {"scope", "driver"}
       THEN /\ ReturnFromScope("None", IF sawFault THEN "query_fault" ELSE "timeout")
            /\ UNCHANGED <<stage, polls, sawFault, edgeRes, edgeCause>>
       ELSE /\ EdgeOver(phase, "Trigger timeout",
                        IF sawFault THEN "query_fault" ELSE "timeout")
            /\ UNCHANGED <<cres, ccause, tasmotaOpen, socket, connected>>
    /\ UNCHANGED <<cvariant, clog, scopeArg, failure_chance, initial_state,
                   should_disconnect_oscilloscope, prev, drvLog>>
    /\ UNCHANGED <<anaVars, cwVars, tasVars, measVars, sesVars, extVars>>

\* scope.py:329-330 and tasmota_tests.py:1019-1038, 1077-1099: fetch the waveform
\* (and, in the test, save and analyse it); rigol_driver.py:401-411: fetch and save
E_Fetch ==
    /\ phase \in Edges /\ stage = "fetch"
    /\ \E got \in {g \in BOOLEAN : g => is_connected}, saved \in BOOLEAN, analysed \in BOOLEAN :
          /\ clog' = Append(clog, LogEv("capture", phase, "capture_waveform", got))
          /\ IF cvariant = "scope"
             THEN /\ saved /\ analysed
                  /\ IF got THEN ReturnFromScope("waveform", "none")
                            ELSE ReturnFromScope("None", "read")
                  /\ UNCHANGED <<stage, polls, sawFault, edgeRes, edgeCause>>
             ELSE IF cvariant = "driver"
             THEN /\ analysed
                  /\ CASE ~got -> saved /\ ReturnFromScope("None", "read")
                       [] got /\ ~saved -> ReturnFromScope("None", "save")
                       [] OTHER -> ReturnFromScope("filename", "none")
                  /\ UNCHANGED <<stage, polls, sawFault, edgeRes, edgeCause>>
             ELSE /\ CASE ~got -> /\ saved /\ analysed
                                  /\ EdgeOver(phase, "Failed to capture waveform", "read")
                       [] got /\ ~saved -> /\ analysed
                                           /\ EdgeOver(phase, "Failed to save waveform", "save")
                       [] got /\ saved /\ ~analysed ->
                                  EdgeOver(phase, "Could not find threshold crossings",
                                           "analysis")
                       [] OTHER -> EdgeOver(phase, "ok", "none")
                  /\ UNCHANGED <<cres, ccause, tasmotaOpen, socket, connected>>
    /\ UNCHANGED <<cvariant, scopeArg, failure_chance, initial_state,
                   should_disconnect_oscilloscope, prev, drvLog>>
    /\ UNCHANGED <<anaVars, cwVars, tasVars, measVars, sesVars, extVars>>

\* tasmota_tests.py:1101-1116, 1219-1228: restore the relay, choose the failure code
P_Finish_EitherEdge ==
    /\ cvariant = "profile" /\ phase = "finish"
    /\ \E ok \in BOOLEAN :
          clog' = Append(clog, LogEv("set_power", "restore",
                                     IF initial_state = "True" THEN "ON" ELSE "OFF", ok))
    /\ IF edgeRes["rising"] # "ok" \/ edgeRes["falling"] # "ok"
       THEN ReturnFromTry("WAVEFORM_CAPTURE_FAILED", "none")
       ELSE ReturnFromTry("NO_FAILURE", "none")
    /\ UNCHANGED <<cvariant, stage, polls, sawFault, scopeArg, failure_chance,
                   initial_state, should_disconnect_oscilloscope, edgeRes, edgeCause,
                   prev, drvLog>>
    /\ UNCHANGED <<anaVars, cwVars, tasVars, measVars, sesVars, extVars>>

P_Finish ==
    /\ cvariant = "profile" /\ phase = "finish"
    /\ \E ok \in BOOLEAN :
          clog' = Append(clog, LogEv("set_power", "restore",
                                     IF initial_state = "True" THEN "ON" ELSE "OFF", ok))
    /\ IF edgeRes["rising"] # "ok" /\ edgeRes["falling"] # "ok"
       THEN ReturnFromTry("WAVEFORM_CAPTURE_FAILED", "none")
       ELSE ReturnFromTry("NO_FAILURE", "none")
    /\ UNCHANGED <<cvariant, stage, polls, sawFault, scopeArg, failure_chance,
                   initial_state, should_disconnect_oscilloscope, edgeRes, edgeCause,
                   prev, drvLog>>
    /\ UNCHANGED <<anaVars, cwVars, tasVars, measVars, sesVars, extVars>>

\* tasmota_tests.py:1230-1239: a call inside the try block raises
P_Exception ==
    /\ cvariant = "profile"
    /\ phase \in {"initial", "prep", "rising", "falling", "finish"}
    /\ ReturnFromTry("EXCEPTION", "exception")
    /\ UNCHANGED <<cvariant, stage, clog, polls, sawFault, scopeArg, failure_chance,
                   initial_state, should_disconnect_oscilloscope, edgeRes, edgeCause,
                   prev, drvLog>>
    /\ UNCHANGED <<anaVars, cwVars, tasVars, measVars, sesVars, extVars>>

\* the (cause, outcome) pairs a finished run shows its caller
RunPairs ==
    {[cause |-> edgeCause[e], outcome |-> edgeRes[e]] :
        e \in {x \in Edges : edgeCause[x] # "none"}}
    \cup (IF ccause # "none" THEN {[cause |-> ccause, outcome |-> cres]} ELSE {})

\* the caller runs the same capture once more
C_Again ==
    /\ phase = "done"
    /\ prev = NoPair
    /\ \E pair \in RunPairs : prev' = pair
    /\ StartRun(cvariant)
    /\ UNCHANGED drvLog
    /\ UNCHANGED <<anaVars, cwVars, tasVars, measVars, sesVars, extVars>>

NextCapture ==
    \/ P_ConnectTasmota \/ P_AcquireScope \/ P_GetInitial \/ P_Prep
    \/ D_NotConnected \/ E_Arm \/ E_Actuate \/ E_Poll \/ E_Timeout \/ E_Fetch
    \/ P_Finish \/ P_Exception \/ C_Again

StartCapture == InitCapture /\ IdleAnalyze /\ IdleFraming /\ IdleTasmota /\ IdleRest

SpecCapture == StartCapture /\ [][NextCapture]_vars

EdgeFailures == {"actuation", "timeout", "read"}
PollFailures == {"timeout", "query_fault"}
Commanded(i) == clog[i].ev = "set_power" /\ clog[i].edge \in Edges
ArmedBefore(i) == \E j \in 1..(i - 1) : clog[j].ev = "arm" /\ clog[j].edge = clog[i].edge

\* C1: in every edge capture the single-shot arm command of an edge is issued
\* before the relay set_power call of that edge: a set_power entry of the
\* command log for the rising or falling edge always has an arm entry of the
\* same edge before it
C1_ArmBeforeActuate ==
    \A i \in 1..Len(clog) : Commanded(i) => ArmedBefore(i)

\* the profile test has switched the relay off in preparation and has then
\* armed and commanded both the rising and the falling edge
C1_Witness ==
    /\ cvariant = "profile"
    /\ \E i \in 1..Len(clog) : clog[i].ev = "set_power" /\ clog[i].edge = "prep"
    /\ \A e \in Edges : \E i \in 1..Len(clog) :
          clog[i].ev = "set_power" /\ clog[i].edge = e /\ ArmedBefore(i)

\* C17: a set_power that returned False for an edge ends the attempt at once:
\* it is the last device call of the run (no status poll, no waveform fetch
\* follows), and the run has ended in failure
C17_ActuationFailureIsFatal ==
    \A i \in 1..Len(clog) :
        (Commanded(i) /\ ~clog[i].ok) =>
            /\ i = Len(clog)
            /\ phase = "done"
            /\ cres \in {"None", "RELAY_CONTROL_FAILED"}

\* the falling edge's set_power failed after a rising edge that was polled
C17_Witness ==
    /\ Len(clog) > 0
    /\ Commanded(Len(clog))
    /\ ~clog[Len(clog)].ok
    /\ clog[Len(clog)].edge = "falling"
    /\ \E j \in 1..Len(clog) : clog[j].ev = "poll" /\ clog[j].edge = "rising"

\* both edges of the profile test had their relay command accepted, and the
\* test returned from its try block without an exception
BothActuated ==
    /\ cvariant = "profile" /\ phase = "done"
    /\ ccause # "exception"
    /\ \A e \in Edges : \E i \in 1..Len(clog) : Commanded(i) /\ clog[i].edge = e /\ clog[i].ok

C8_ClosedOnEveryExit ==
    (cvariant = "profile" /\ phase = "done") =>
        /\ ~tasmotaOpen
        /\ scopeArg = "ip" => socket = "None"

\* C3: an actuation failure, a trigger timeout and a waveform read failure of
\* the same edge-capture operation give pairwise different results: two runs
\* that fail for two different of these causes never end in the same outcome
C3_FailuresDistinguished ==
    (phase = "done" /\ prev # NoPair) =>
        \A pair \in RunPairs :
            (pair.cause \in EdgeFailures /\ prev.cause \in EdgeFailures
             /\ pair.cause # prev.cause) => pair.outcome # prev.outcome

\* C4: a trigger timeout whose status polls were all answered ends in an
\* outcome different from that of a run whose status query failed
C4_TimeoutDistinctFromQueryFault ==
    (phase = "done" /\ prev # NoPair) =>
        \A pair \in RunPairs :
            (pair.cause \in PollFailures /\ prev.cause \in PollFailures
             /\ pair.cause # prev.cause) => pair.outcome # prev.outcome

\* the trigger slope in force when clog[i] is issued: the last slope command
\* before it, or the one of the oscilloscope set-up (scope.py:219,
\* rigol_driver.py:203), which is positive
SlopeAt(i) ==
    LET S == {j \in 1..(i - 1) : clog[j].ev = "slope"}
    IN IF S = {} THEN "POS" ELSE clog[CHOOSE j \in S : \A k \in S : k <= j].arg

\* the slope of the transition an edge capture commands
SlopeOf(edge) == IF edge = "rising" THEN "POS" ELSE "NEG"

(***************************************************************************)
(* C24 (as claimed): whenever an edge capture arms the oscilloscope, the   *)
(* trigger slope in force is the one of the commanded transition:          *)
(* positive to turn the relay on, negative to turn it off.                 *)
(***************************************************************************)
C24_SlopeMatchesTransition ==
    \A i \in 1..Len(clog) :
        (clog[i].ev = "arm" /\ clog[i].edge \in Edges) => SlopeAt(i) = SlopeOf(clog[i].edge)

\* the arm command of the edge clog[i] commands: the last arm entry of that edge
\* before clog[i]
ArmOf(i) ==
    LET A == {j \in 1..(i - 1) : clog[j].ev = "arm" /\ clog[j].edge = clog[i].edge}
    IN CHOOSE j \in A : \A k \in A : k <= j

(***************************************************************************)
(* C29 (as claimed): an edge capture commands the relay only if the        *)
(* single-shot arm command was successfully sent: every set_power entry of *)
(* an edge follows an arm entry of that edge whose send_command returned   *)
(* True.                                                                   *)
(***************************************************************************)
C29_RelayOnlyAfterArmSent ==
    \A i \in 1..Len(clog) :
        (Commanded(i) /\ ArmedBefore(i)) => clog[ArmOf(i)].ok

(***************************************************************************)
(* RigolOscilloscopeDriver.capture_waveform (rigol_driver.py).  A byte is  *)
(* its integer value.  int() on a byte slice is modelled on slices made of *)
(* decimal digits and other non-blank, non-sign bytes: all digits give the *)
(* number, anything else (the empty slice included) raises ValueError.     *)
(***************************************************************************)
MaxPayload == 2
MaxPreambleFields == 11
Hash == 35
AsciiZero == 48
RecvMax == 4096
HeaderAssumed == 11
MinPreambleFields == 10
BadBytes == {120}
PayloadCodes == {35, 200}
HeaderDigits == 1..9

IsDigit(b) == b \in AsciiZero..(AsciiZero + 9)

RECURSIVE DecimalValue(_)
DecimalValue(bs) ==
    IF bs = <<>> THEN 0
    ELSE 10 * DecimalValue(SubSeq(bs, 1, Len(bs) - 1)) + (bs[Len(bs)] - AsciiZero)

\* int(bs): [ok, value]; ok = FALSE stands for ValueError
ParseInt(bs) ==
    IF bs # <<>> /\ \A k \in 1..Len(bs) : IsDigit(bs[k])
    THEN [ok |-> TRUE, value |-> DecimalValue(bs)]
    ELSE [ok |-> FALSE, value |-> 0]

\* the n decimal digits of x, zero padded, as the instrument writes them
RECURSIVE Digits(_, _)
Digits(x, n) ==
    IF n = 0 THEN <<>> ELSE Append(Digits(x \div 10, n - 1), AsciiZero + (x % 10))

\* "#" N <N digits of len(payload)> payload
BlockBytes(n, payload) == <<Hash, AsciiZero + n>> \o Digits(Len(payload), n) \o payload

\* response.find(b"#")
FindHash(r) == FirstIndex({i \in 0..(Len(r) - 1) : At(r, i) = Hash})

\* response += chunk
Accumulate_KeepLast(r, chunk) == chunk
Accumulate(r, chunk) == r \o chunk

\* lines 281-297: [status, data_length], status "wait" (header not complete yet),
\* "ok" (header_read = True) or "error" (ValueError: return None)
ParseHeader(r) ==
    LET header_pos == FindHash(r)
    IN  IF header_pos < 0 \/ ~(Len(r) > header_pos + 2)
        THEN [status |-> "wait", data_length |-> 0]
        ELSE LET nd == ParseInt(PySlice(r, header_pos + 1, header_pos + 2))
             IN IF ~nd.ok THEN [status |-> "error", data_length |-> 0]
                ELSE IF ~(Len(r) >= header_pos + 2 + nd.value)
                     THEN [status |-> "wait", data_length |-> 0]
                     ELSE LET dl == ParseInt(PySlice(r, header_pos + 2,
                                                     header_pos + 2 + nd.value))
                          IN IF dl.ok THEN [status |-> "ok", data_length |-> dl.value]
                                      ELSE [status |-> "error", data_length |-> 0]

\* line 300-303: the loop's exit test
AllRead(r, hdr, dl) == hdr /\ Len(r) >= dl + HeaderAssumed

\* one pass of the while loop on a non-empty chunk:
\* exit is "continue", "break" or "error"
LoopStep(st, chunk) ==
    LET r  == Accumulate(st.response, chunk)
        ph == IF ~st.header_read /\ FindHash(r) >= 0
              THEN ParseHeader(r)
              ELSE [status |-> "wait", data_length |-> 0]
        hdr == st.header_read \/ ph.status = "ok"
        dl  == IF ph.status = "ok" THEN ph.data_length ELSE st.data_length
    IN  [response |-> r, header_read |-> hdr, data_length |-> dl,
         exit |-> IF ph.status = "error" THEN "error"
                  ELSE IF AllRead(r, hdr, dl) THEN "break" ELSE "continue"]

\* lines 305-322: what is returned once the loop has ended
Extract(st) ==
    IF st.header_read
    THEN LET header_pos    == FindHash(st.response)
             length_digits == ParseInt(PySlice(st.response, header_pos + 1,
                                               header_pos + 2)).value
             data_start    == header_pos + 2 + length_digits
         IN [ok |-> TRUE,
             codes |-> PySlice(st.response, data_start, data_start + st.data_length)]
    ELSE NoWaveform

\* the preambles tried: the one of the instrument's documentation example and
\* one with every field different from its neutral value
Scalings ==
    { [x_increment |-> 1, x_origin |-> 0, y_increment |-> 1, y_origin |-> 0,
       y_reference |-> 128],
      [x_increment |-> 2, x_origin |-> -6, y_increment |-> 3, y_origin |-> 50,
       y_reference |-> 100] }

\* lines 313, 317: np.frombuffer(..., dtype=np.uint8) gives unsigned bytes;
\* waveform - y_reference subtracts a Python float, so the difference is a
\* float64 and may be negative
ScaleCode_Uint8(code, sc) ==
    ((code - sc.y_reference) % 256) * sc.y_increment + sc.y_origin
ScaleCode(code, sc) ==
    (code - sc.y_reference) * sc.y_increment + sc.y_origin

\* lines 316-319: the rows (time, voltage) of np.column_stack
Scale(res, sc) ==
    IF res.ok
    THEN [i \in 1..Len(res.codes) |->
             <<(i - 1) * sc.x_increment + sc.x_origin, ScaleCode(res.codes[i], sc)>>]
    ELSE <<>>

\* recv once the instrument has nothing more to send: b"" when the peer closed
\* (the loop breaks), socket.timeout otherwise (caught at line 324: None)
AtEnd(st, how) == IF how = "close" THEN Extract(st) ELSE NoWaveform

LoopStart == [response |-> <<>>, header_read |-> FALSE, data_length |-> 0]

\* the result when everything the instrument sends arrives in a single recv
OneRead(w, how) ==
    IF w = <<>> THEN AtEnd(LoopStart, how)
    ELSE LET st == LoopStep(LoopStart, w)
         IN CASE st.exit = "error" -> NoWaveform
              [] st.exit = "break" -> Extract(st)
              [] OTHER             -> AtEnd(st, how)

\* what the instrument may put on the wire: a block, possibly with one header
\* byte damaged, possibly followed by the reply terminator, possibly cut short
Payloads == UNION {[1..l -> PayloadCodes] : l \in 0..MaxPayload}

Damaged(bs, k, b) == [bs EXCEPT ![k] = b]

InitFraming ==
    /\ socket = "open"
    /\ connected \in BOOLEAN
    /\ drvLog = <<>>
    /\ \E n \in HeaderDigits, payload \in Payloads, kind \in {"valid", "badN", "badLen"},
          tail \in {<<>>, <<Newline>>} :
          LET good == BlockBytes(n, payload)
              sentBytes == CASE kind = "valid"  -> good
                             [] kind = "badN"   -> Damaged(good, 2, CHOOSE b \in BadBytes : TRUE)
                             [] kind = "badLen" -> Damaged(good, 2 + n, CHOOSE b \in BadBytes : TRUE)
          IN /\ block = [n |-> n, l |-> Len(payload), kind |-> kind]
             /\ \E cut \in 0..Len(sentBytes \o tail) :
                    wire = SubSeq(sentBytes \o tail, 1, cut)
    /\ wireEnd \in {"close", "timeout"}
    /\ pos = 0
    /\ response = <<>>
    /\ header_read = FALSE
    /\ data_length = 0
    /\ preamble = [fields |-> 0, numeric |-> FALSE, scale |-> NoScale]
    /\ sent = <<>>
    /\ splitHeader = FALSE
    /\ cwresult = NoWaveform
    /\ waveform = <<>>
    /\ cwpc = "start"

\* lines 226-227: not connected, nothing is sent
CW_NotConnected ==
    /\ cwpc = "start"
    /\ ~is_connected
    /\ cwresult' = NoWaveform
    /\ cwpc' = "done"
    /\ UNCHANGED <<wire, wireEnd, block, pos, response, header_read, data_length,
                   preamble, sent, splitHeader, waveform>>
    /\ UNCHANGED <<anaVars, drvVars, capVars, tasVars, measVars, sesVars, extVars>>

\* lines 229-265: stop, select the source and format, read and check the preamble,
\* request the data; a bad preamble returns None through the finally clause
CW_Preamble ==
    /\ cwpc = "start"
    /\ is_connected
    /\ \E fields \in 0..MaxPreambleFields, numeric \in BOOLEAN, scale \in Scalings :
          /\ preamble' = [fields |-> fields, numeric |-> numeric,
                          scale |-> IF fields < MinPreambleFields \/ ~numeric
                                    THEN NoScale ELSE scale]
          /\ IF fields < MinPreambleFields \/ ~numeric
             THEN /\ sent' = <<":STOP", ":WAV:SOUR", ":WAV:FORM", ":WAV:PRE?", ":RUN">>
                  /\ cwpc' = "done"
             ELSE /\ sent' = <<":STOP", ":WAV:SOUR", ":WAV:FORM", ":WAV:PRE?", ":WAV:DATA?">>
                  /\ cwpc' = "reading"
    /\ cwresult' = NoWaveform
    /\ UNCHANGED <<wire, wireEnd, block, pos, response, header_read, data_length,
                   splitHeader, waveform>>
    /\ UNCHANGED <<anaVars, drvVars, capVars, tasVars, measVars, sesVars, extVars>>

\* lines 273-303 (and 305-329 when the loop ends): recv hands out the next chunk
CW_Recv ==
    /\ cwpc = "reading"
    /\ pos < Len(wire)
    /\ \E n \in 1..Min2(RecvMax, Len(wire) - pos) :
          \E st \in {LoopStep([response |-> response, header_read |-> header_read,
                               data_length |-> data_length],
                              SubSeq(wire, pos + 1, pos + n))} :
             /\ pos' = pos + n
             /\ response' = st.response
             /\ header_read' = st.header_read
             /\ data_length' = st.data_length
             /\ splitHeader' = (splitHeader \/ (pos + n < 2 + block.n))
             /\ IF st.exit = "continue"
                THEN UNCHANGED <<cwresult, waveform, cwpc, sent>>
                ELSE /\ cwresult' = IF st.exit = "break" THEN Extract(st) ELSE NoWaveform
                     /\ waveform' = Scale(cwresult', preamble.scale)
                     /\ cwpc' = "done"
                     /\ sent' = Append(sent, ":RUN")
    /\ UNCHANGED <<wire, wireEnd, block, preamble>>
    /\ UNCHANGED <<anaVars, drvVars, capVars, tasVars, measVars, sesVars, extVars>>

\* lines 274-276 / 324-329: nothing more arrives
CW_RecvEnd_NoRun ==
    /\ cwpc = "reading"
    /\ pos = Len(wire)
    /\ cwresult' = AtEnd([response |-> response, header_read |-> header_read,
                          data_length |-> data_length], wireEnd)
    /\ waveform' = Scale(cwresult', preamble.scale)
    /\ cwpc' = "done"
    /\ UNCHANGED <<wire, wireEnd, block, pos, response, header_read, data_length,
                   preamble, sent, splitHeader>>
    /\ UNCHANGED <<anaVars, drvVars, capVars, tasVars, measVars, sesVars, extVars>>
CW_RecvEnd ==
    /\ cwpc = "reading"
    /\ pos = Len(wire)
    /\ cwresult' = AtEnd([response |-> response, header_read |-> header_read,
                          data_length |-> data_length], wireEnd)
    /\ waveform' = Scale(cwresult', preamble.scale)
    /\ cwpc' = "done"
    /\ sent' = Append(sent, ":RUN")
    /\ UNCHANGED <<wire, wireEnd, block, pos, response, header_read, data_length,
                   preamble, splitHeader>>
    /\ UNCHANGED <<anaVars, drvVars, capVars, tasVars, measVars, sesVars, extVars>>

NextFraming == CW_NotConnected \/ CW_Preamble \/ CW_Recv \/ CW_RecvEnd

StartFraming == InitFraming /\ IdleAnalyze /\ IdleCapture /\ IdleTasmota /\ IdleRest

SpecFraming == StartFraming /\ [][NextFraming]_vars

\* the instrument sent a well-formed block and all of it (header and payload)
BlockValid == block.kind = "valid"
BlockLength == 2 + block.n + block.l
ReadStarted == cwpc = "reading" \/ (cwpc = "done" /\ Len(sent) > 0 /\ sent[Len(sent) - 1] = ":WAV:DATA?")

(***************************************************************************)
(* C38: every capture_waveform call on a connected driver sends :STOP      *)
(* before any other waveform command and :RUN as its last command, once,   *)
(* on every exit path (success, preamble failure, header failure,          *)
(* exception); a call on a driver that is not connected sends nothing.     *)
(***************************************************************************)
C38_StopFirstRunLast ==
    /\ sent # <<>> => sent[1] = ":STOP"
    /\ \A i \in 1..(Len(sent) - 1) : sent[i] # ":RUN" /\ sent[i + 1] # ":STOP"
    /\ cwpc = "done" =>
          IF is_connected THEN sent # <<>> /\ sent[Len(sent)] = ":RUN"
                          ELSE sent = <<>>
    /\ cwpc = "reading" => sent[Len(sent)] = ":WAV:DATA?"

\* the read ended in a recv timeout inside the block: nothing is returned and
\* :RUN was the last command
C38_Witness ==
    /\ cwpc = "done"
    /\ ReadStarted
    /\ wireEnd = "timeout"
    /\ pos = Len(wire)
    /\ ~cwresult.ok
    /\ sent[1] = ":STOP"
    /\ sent[Len(sent)] = ":RUN"

(***************************************************************************)
(* C5: the samples capture_waveform returns do not depend on how the       *)
(* instrument's bytes are cut into recv chunks: they are those of a single *)
(* recv delivering everything.                                             *)
(***************************************************************************)
C5_ChunkingIndependent ==
    (cwpc = "done" /\ ReadStarted) => cwresult = OneRead(wire, wireEnd)

C5_Witness ==
    /\ cwpc = "done"
    /\ BlockValid
    /\ splitHeader
    /\ cwresult.ok
    /\ Len(cwresult.codes) = block.l
    /\ block.l > 0

(***************************************************************************)
(* C6 (as claimed): for every valid header (N in 1..9) capture_waveform    *)
(* stops reading once the header and the L payload bytes are in, and       *)
(* returns exactly L samples.                                              *)
(***************************************************************************)
C6_StopsAtDeclaredLength ==
    (ReadStarted /\ BlockValid /\ Len(response) >= BlockLength) =>
        (cwpc = "done" /\ cwresult.ok /\ Len(cwresult.codes) = block.l)

(***************************************************************************)
(* C7 (as claimed): a short preamble, an unparsable length header or a     *)
(* stream that ends before the declared payload is complete give None, and *)
(* a returned waveform is never shorter than the declared payload length.  *)
(***************************************************************************)
C7_FailsOnMalformed ==
    cwpc = "done" /\ is_connected =>
        /\ preamble.fields < MinPreambleFields => ~cwresult.ok
        /\ ~BlockValid => ~cwresult.ok
        /\ (BlockValid /\ Len(wire) < BlockLength) => ~cwresult.ok
        /\ (BlockValid /\ cwresult.ok) => Len(cwresult.codes) >= block.l

(***************************************************************************)
(* C16: the rows capture_waveform returns are the raw codes scaled by the  *)
(* preamble: time[i] = i * x_increment + x_origin and voltage[i] =         *)
(* (code[i] - y_reference) * y_increment + y_origin, a code below          *)
(* y_reference giving a voltage below y_origin (no unsigned wrap-around),  *)
(* for the codes received and for every code 0..255.                       *)
(***************************************************************************)
C16_PreambleScaling ==
    (cwpc = "done" /\ cwresult.ok) =>
        LET sc == preamble.scale
        IN /\ Len(waveform) = Len(cwresult.codes)
           /\ \A i \in 1..Len(waveform) :
                 /\ waveform[i][1] = (i - 1) * sc.x_increment + sc.x_origin
                 /\ waveform[i][2] - sc.y_origin
                       = (cwresult.codes[i] - sc.y_reference) * sc.y_increment
           /\ \A code \in 0..255 :
                 /\ code < sc.y_reference => ScaleCode(code, sc) < sc.y_origin
                 /\ code > sc.y_reference => ScaleCode(code, sc) > sc.y_origin
                 /\ code = sc.y_reference => ScaleCode(code, sc) = sc.y_origin

\* a waveform came back with a code below and a code above y_reference
C16_Witness ==
    /\ cwpc = "done"
    /\ cwresult.ok
    /\ \E i, j \in 1..Len(waveform) :
          /\ cwresult.codes[i] < preamble.scale.y_reference
          /\ waveform[i][2] < preamble.scale.y_origin
          /\ cwresult.codes[j] > preamble.scale.y_reference
          /\ waveform[j][2] > preamble.scale.y_origin
          /\ j > 1

(***************************************************************************)
(* The block read loop of capture_waveform against an instrument that      *)
(* never falls silent.  Besides closing the connection or letting recv     *)
(* time out, the instrument may go on sending: it repeats its output for   *)
(* ever ("stream").  The loop has no deadline and no size limit: every     *)
(* recv that returns bytes within the socket timeout starts another pass.  *)
(* When no "#" will ever arrive nothing in response is looked at, so the   *)
(* model keeps only its last RespCap bytes.                                *)
(***************************************************************************)
RespCap == 3
StreamDigits == {1}

\* bytes that hold no "#", and the cuts of well-formed blocks
StreamWires ==
    {<<b, b>> : b \in BadBytes} \cup {<<b, b, b>> : b \in BadBytes}
    \cup UNION {{SubSeq(BlockBytes(n, payload), 1, cut) :
                     cut \in 0..Len(BlockBytes(n, payload))} :
                 n \in StreamDigits, payload \in Payloads}

NeverFramed(w) == FindHash(w) < 0

KeepLast(r) == IF Len(r) > RespCap THEN SubSeq(r, Len(r) - RespCap + 1, Len(r)) ELSE r

InitStream ==
    /\ socket = "open"
    /\ connected \in BOOLEAN
    /\ drvLog = <<>>
    /\ wire \in StreamWires
    /\ wireEnd \in {"close", "timeout", "stream"}
    /\ wireEnd = "stream" => wire # <<>>
    /\ block = [n |-> 0, l |-> 0, kind |-> "stream"]
    /\ pos = 0
    /\ response = <<>>
    /\ header_read = FALSE
    /\ data_length = 0
    /\ preamble = [fields |-> 0, numeric |-> FALSE, scale |-> NoScale]
    /\ sent = <<>>
    /\ splitHeader = FALSE
    /\ cwresult = NoWaveform
    /\ waveform = <<>>
    /\ cwpc = "start"

\* lines 273-303 when the instrument goes on sending: recv returns the next
\* bytes of its endless output, the loop body runs on them
CW_RecvStream ==
    /\ cwpc = "reading"
    /\ wireEnd = "stream"
    /\ \E n \in 1..Min2(RecvMax, Len(wire) - pos) :
          \E st \in {LoopStep([response |-> response, header_read |-> header_read,
                               data_length |-> data_length],
                              SubSeq(wire, pos + 1, pos + n))} :
             /\ pos' = (pos + n) % Len(wire)
             /\ response' = IF NeverFramed(wire) THEN KeepLast(st.response)
                                                 ELSE st.response
             /\ header_read' = st.header_read
             /\ data_length' = st.data_length
             /\ IF st.exit = "continue"
                THEN UNCHANGED <<cwresult, waveform, cwpc, sent>>
                ELSE /\ cwresult' = IF st.exit = "break" THEN Extract(st) ELSE NoWaveform
                     /\ waveform' = Scale(cwresult', preamble.scale)
                     /\ cwpc' = "done"
                     /\ sent' = Append(sent, ":RUN")
    /\ UNCHANGED <<wire, wireEnd, block, preamble, splitHeader>>
    /\ UNCHANGED <<anaVars, drvVars, capVars, tasVars, measVars, sesVars, extVars>>

\* an instrument that stops sending is read as in SpecFraming
CW_RecvFinite == wireEnd # "stream" /\ (CW_Recv \/ CW_RecvEnd)

NextStream == CW_NotConnected \/ CW_Preamble \/ CW_RecvFinite \/ CW_RecvStream

StartStream == InitStream /\ IdleAnalyze /\ IdleCapture /\ IdleTasmota /\ IdleRest

\* every step of capture_waveform changes its position, the read position or
\* the bytes collected
cwProgress == <<cwpc, pos, response>>

\* the interpreter runs the loop on: a pass that can be made is made
SpecStream == StartStream /\ [][NextStream]_vars /\ WF_cwProgress(NextStream)

(***************************************************************************)
(* C18 (as claimed): whatever the instrument does, the block read loop of  *)
(* capture_waveform ends after finitely many reads, so the capture         *)
(* returns.                                                                *)
(***************************************************************************)
C18_ReadLoopEnds == <>(cwpc = "done")

(***************************************************************************)
(* RigolOscilloscopeDriver.query (rigol_driver.py:121-169), its read loop  *)
(* byte by byte.  The instrument's reply is wire and what follows it       *)
(* wireEnd: the peer closes (recv returns b""), stays silent (recv raises  *)
(* socket.timeout) or resets the connection (recv raises another OSError). *)
(* response is query's local of that name; cwresult is what query returns: *)
(* ok = FALSE for None, otherwise codes holds the characters of the text   *)
(* (the replies are ASCII, which utf-8 decoding maps to themselves).       *)
(***************************************************************************)
MaxReply == 3
\* the bytes of a reply: a letter ("A"), a blank and the terminator
ReplyBytes == {65, 32, Newline}
Whitespace == {32, Newline}
Replies == UNION {[1..l -> ReplyBytes] : l \in 0..MaxReply}

\* response.endswith(b"\n")
EndsWithNewline(r) == r # <<>> /\ r[Len(r)] = Newline

\* str.strip()
RECURSIVE Strip(_)
Strip(r) ==
    IF r = <<>> THEN r
    ELSE IF r[1] \in Whitespace THEN Strip(Tail(r))
    ELSE IF r[Len(r)] \in Whitespace THEN Strip(SubSeq(r, 1, Len(r) - 1))
    ELSE r

\* lines 159-165: what query returns once the loop has ended
QueryResult(r) ==
    IF r # <<>> THEN [ok |-> TRUE, codes |-> Strip(r)] ELSE NoWaveform

InitQuery ==
    /\ \E h \in HandedIn : socket = h[1] /\ connected = h[2]
    /\ drvLog = <<>>
    /\ wire \in Replies
    /\ wireEnd \in {"close", "timeout", "reset"}
    /\ block = [n |-> 0, l |-> 0, kind |-> "query"]
    /\ pos = 0
    /\ response = <<>>
    /\ header_read = FALSE
    /\ data_length = 0
    /\ preamble = [fields |-> 0, numeric |-> FALSE, scale |-> NoScale]
    /\ sent = <<>>
    /\ splitHeader = FALSE
    /\ cwresult = NoWaveform
    /\ waveform = <<>>
    /\ cwpc = "start"

\* lines 131-138: refused when not connected; None when the send fails
Q_Send ==
    /\ cwpc = "start"
    /\ \E linkOk \in BOOLEAN :
          IF is_connected /\ linkOk
          THEN /\ sent' = <<"*IDN?">>
               /\ cwpc' = "reading"
          ELSE /\ sent' = sent
               /\ cwpc' = "done"
    /\ cwresult' = NoWaveform
    /\ UNCHANGED <<wire, wireEnd, block, pos, response, header_read, data_length,
                   preamble, splitHeader, waveform>>
    /\ UNCHANGED <<anaVars, drvVars, capVars, tasVars, measVars, sesVars, extVars>>

\* lines 145-153: one pass of the loop on a chunk; the loop ends on a response
\* that ends with the terminator, or because the deadline has passed
Q_Recv ==
    /\ cwpc = "reading"
    /\ pos < Len(wire)
    /\ \E n \in 1..Min2(RecvMax, Len(wire) - pos), expired \in BOOLEAN :
          LET r == response \o SubSeq(wire, pos + 1, pos + n)
          IN /\ pos' = pos + n
             /\ response' = r
             /\ IF EndsWithNewline(r) \/ expired
                THEN /\ cwresult' = QueryResult(r)
                     /\ cwpc' = "done"
                ELSE UNCHANGED <<cwresult, cwpc>>
    /\ UNCHANGED <<wire, wireEnd, block, header_read, data_length,
                   preamble, sent, splitHeader, waveform>>
    /\ UNCHANGED <<anaVars, drvVars, capVars, tasVars, measVars, sesVars, extVars>>

\* lines 147-149, 154-156, 167-169: nothing more arrives
Q_RecvEnd ==
    /\ cwpc = "reading"
    /\ pos = Len(wire)
    /\ cwresult' = IF wireEnd = "reset" THEN NoWaveform ELSE QueryResult(response)
    /\ cwpc' = "done"
    /\ UNCHANGED <<wire, wireEnd, block, pos, response, header_read, data_length,
                   preamble, sent, splitHeader, waveform>>
    /\ UNCHANGED <<anaVars, drvVars, capVars, tasVars, measVars, sesVars, extVars>>

NextQuery == Q_Send \/ Q_Recv \/ Q_RecvEnd

StartQuery == InitQuery /\ IdleAnalyze /\ IdleCapture /\ IdleTasmota /\ IdleRest

SpecQuery == StartQuery /\ [][NextQuery]_vars

(***************************************************************************)
(* C20 (as claimed): query returns decoded text only for a complete,       *)
(* terminator-ended response; when the read ends by timeout or by the      *)
(* peer closing before such a response has arrived it returns None.        *)
(***************************************************************************)
C20_TextOnlyWhenComplete ==
    (cwpc = "done" /\ cwresult.ok) => EndsWithNewline(response)

(***************************************************************************)
(* test_relay_control (tasmota_tests.py:214-613) on a connected relay      *)
(* driver, with TasmotaSerialDriver.get_power_state and set_power          *)
(* (tasmota_driver.py:180-419).  A relay state is "True" (ON), "False"     *)
(* (OFF) or "None" (not determined).  What the device answers to           *)
(* "Status 11" is one of S11Replies: a JSON reply whose StatusSTS.POWER is *)
(* ON, OFF, something else or missing, a raw reply that matches an ON      *)
(* pattern, an OFF pattern or none, or no usable reply.                    *)
(***************************************************************************)
TestCycles == 1
max_retries == 3
RelayStates == {"True", "False", "None"}
S11Replies == {"json_ON", "json_OFF", "json_OTHER", "json_nofield",
               "raw_ON", "raw_OFF", "raw_none", "empty"}
CommandReplies == {"empty", "success", "raw_other", "json"}

\* one call of get_power_state: the Status 11 reply and what the two later
\* methods (direct Power query, Status 0) determine
Readings == [s11 : S11Replies, later : RelayStates]

\* tasmota_driver.py:223-305
get_power_state(rd) ==
    CASE rd.s11 \in {"json_ON", "raw_ON"}   -> "True"
      [] rd.s11 \in {"json_OFF", "raw_OFF"} -> "False"
      [] OTHER                              -> rd.later

\* tasmota_tests.py:391-471: initial_state from a Status 11 reply, for relay 1;
\* a POWER field gives initial_state = (status_sts["POWER"] == "ON")
FallbackState(s11) ==
    CASE s11 \in {"json_ON", "raw_ON"}                 -> "True"
      [] s11 \in {"json_OFF", "json_OTHER", "raw_OFF"} -> "False"
      [] OTHER                                         -> "None"

\* state is expected_state (tasmota_tests.py:305, 313)
Matches(got, expected) == got = expected

\* tasmota_driver.py:346-354, 400-406: the state read is the requested one
AlreadyThere_OrUnknown(current, state) == current = "None" \/ current = state
AlreadyThere(current, state) == current # "None" /\ current = state

\* tasmota_driver.py:335-419: [sent, ret, current]
set_power(state, before, reply, after) ==
    LET current == get_power_state(before)
    IN  IF AlreadyThere(current, state)
        THEN [sent |-> FALSE, ret |-> TRUE, current |-> current]
        ELSE [sent |-> TRUE, current |-> current,
              ret |-> CASE reply = "empty"   -> FALSE
                        [] reply = "success" -> TRUE
                        [] OTHER -> AlreadyThere(get_power_state(after), state)]

RelayOp(expected, name, verify) == [expected |-> expected, name |-> name, verify |-> verify]

RECURSIVE Cycles(_)
Cycles(n) ==
    IF n = 0 THEN <<>>
    ELSE <<RelayOp("True", "ON", TRUE), RelayOp("False", "OFF", TRUE)>> \o Cycles(n - 1)

\* tasmota_tests.py:473-575: the operations that follow from initial_state
PlanFrom(initial) ==
    LET known == IF initial = "None" THEN "False" ELSE initial
    IN  (IF initial = "None" THEN <<RelayOp("False", "OFF (initial)", TRUE)>> ELSE <<>>)
        \o (IF known = "True" THEN <<RelayOp("False", "OFF (preparation)", TRUE)>>
                              ELSE <<>>)
        \o Cycles(TestCycles)
        \o <<RelayOp(known, "restore", FALSE)>>

\* tasmota_tests.py:340-352: the driver has connected
InitRelay ==
    /\ serial = "open"
    /\ tpc = "initial"
    /\ tstep = <<>>
    /\ tries = 0
    /\ tstate = "None"
    /\ tsource = "none"
    /\ tlast = NoCall
    /\ tres = "pending"

\* the return through the finally clause (tasmota_tests.py:611-613)
RelayReturn(code) ==
    /\ tres' = code
    /\ tpc' = "done"
    /\ tries' = 0
    /\ serial' = "None"

\* the current operation is over: on to the next one
RelayAdvance ==
    /\ tstep' = Tail(tstep)
    /\ IF Tail(tstep) = <<>>
       THEN RelayReturn("NO_FAILURE")
       ELSE tpc' = "set" /\ tries' = 0 /\ UNCHANGED <<tres, serial>>

\* tasmota_tests.py:375-389: one pass of the initial-state retry loop
R_GetInitial ==
    /\ tpc = "initial"
    /\ \E rd \in Readings :
          LET got == get_power_state(rd)
          IN /\ tlast' = [op |-> "get_power_state", expected |-> "None",
                          current |-> got, sent |-> FALSE, ret |-> got]
             /\ IF got # "None"
                THEN /\ tstate' = got
                     /\ tsource' = "get_power_state"
                     /\ tstep' = PlanFrom(got)
                     /\ tpc' = "set"
                     /\ tries' = 0
                ELSE /\ UNCHANGED <<tstate, tsource, tstep>>
                     /\ IF tries + 1 = max_retries
                        THEN tpc' = "fallback" /\ tries' = 0
                        ELSE tpc' = tpc /\ tries' = tries + 1
    /\ UNCHANGED <<tres, serial>>
    /\ UNCHANGED <<anaVars, drvVars, cwVars, capVars, measVars, sesVars, extVars>>

\* tasmota_tests.py:391-471: the Status 11 fallback
R_Fallback ==
    /\ tpc = "fallback"
    /\ \E s11 \in S11Replies :
          LET st == FallbackState(s11)
          IN /\ tlast' = [op |-> "send_command", expected |-> "None",
                          current |-> st, sent |-> TRUE, ret |-> s11]
             /\ tstate' = st
             /\ tsource' = IF st = "None" THEN tsource ELSE s11
             /\ tstep' = PlanFrom(st)
    /\ tpc' = "set"
    /\ tries' = 0
    /\ UNCHANGED <<tres, serial>>
    /\ UNCHANGED <<anaVars, drvVars, cwVars, capVars, measVars, sesVars, extVars>>

\* set_relay_state (tasmota_tests.py:271-297): one pass of its retry loop; a
\* failed restore is only logged (574-576)
R_Set ==
    /\ tpc = "set"
    /\ \E before \in Readings, reply \in CommandReplies, after \in Readings :
          LET op == Head(tstep)
              r  == set_power(op.expected, before, reply, after)
          IN /\ tlast' = [op |-> "set_power", expected |-> op.expected,
                          current |-> r.current, sent |-> r.sent, ret |-> PyBool(r.ret)]
             /\ IF r.ret
                THEN IF op.verify
                     THEN tpc' = "verify" /\ tries' = 0 /\ UNCHANGED <<tstep, tres, serial>>
                     ELSE RelayAdvance
                ELSE IF tries + 1 < max_retries
                     THEN tpc' = tpc /\ tries' = tries + 1 /\ UNCHANGED <<tstep, tres, serial>>
                     ELSE IF op.name = "restore"
                          THEN RelayAdvance
                          ELSE RelayReturn("RELAY_CONTROL_FAILED") /\ UNCHANGED tstep
    /\ UNCHANGED <<tstate, tsource>>
    /\ UNCHANGED <<anaVars, drvVars, cwVars, capVars, measVars, sesVars, extVars>>

\* verify_relay_state (tasmota_tests.py:299-325): one pass of its retry loop;
\* after a verified "OFF (initial)" initial_state = False (483-497)
R_Verify ==
    /\ tpc = "verify"
    /\ \E rd \in Readings :
          LET op  == Head(tstep)
              got == get_power_state(rd)
              ok  == Matches(got, op.expected)
          IN /\ tlast' = [op |-> "verify", expected |-> op.expected,
                          current |-> got, sent |-> FALSE, ret |-> PyBool(ok)]
             /\ IF ok
                THEN /\ RelayAdvance
                     /\ IF op.name = "OFF (initial)"
                        THEN tstate' = "False" /\ tsource' = "verified"
                        ELSE UNCHANGED <<tstate, tsource>>
                ELSE /\ UNCHANGED <<tstate, tsource>>
                     /\ IF tries + 1 < max_retries
                        THEN tpc' = tpc /\ tries' = tries + 1
                             /\ UNCHANGED <<tstep, tres, serial>>
                        ELSE /\ RelayReturn(IF op.name = "OFF (initial)"
                                            THEN "INVALID_RESPONSE"
                                            ELSE "RELAY_STATE_MISMATCH")
                             /\ UNCHANGED tstep
    /\ UNCHANGED <<anaVars, drvVars, cwVars, capVars, measVars, sesVars, extVars>>

NextRelay == R_GetInitial \/ R_Fallback \/ R_Set \/ R_Verify

StartRelay == InitRelay /\ IdleAnalyze /\ IdleDriver /\ IdleFraming /\ IdleCapture /\ IdleRest

SpecRelay == StartRelay /\ [][NextRelay]_vars

\* the readings that determine OFF
DeterminedOff == {"get_power_state", "json_OFF", "raw_OFF", "verified"}

(***************************************************************************)
(* C23 (as claimed): an undetermined relay state is never treated as OFF.  *)
(* set_power sends its command when the state read is None; verification   *)
(* counts None as a mismatch whether ON or OFF is expected; and            *)
(* initial_state is OFF only from a reading that determined OFF.           *)
(***************************************************************************)
C23_UnknownIsNotOff ==
    /\ (tlast.op = "set_power" /\ tlast.current = "None") => tlast.sent
    /\ (tlast.op = "verify" /\ tlast.current = "None") => tlast.ret = "False"
    /\ tstate = "False" => tsource \in DeterminedOff

(***************************************************************************)
(* C37 (as claimed): when test_relay_control returns NO_FAILURE every      *)
(* cycle has been made, each an ON command verified ON followed by an OFF  *)
(* command verified OFF, and the relay has been restored to the state it   *)
(* had when the test started: the last driver call is the restoring        *)
(* set_power, for the initial state, and it succeeded.                     *)
(***************************************************************************)
C37_PassMeansRestored ==
    (tpc = "done" /\ tres = "NO_FAILURE") =>
        /\ tstep = <<>>
        /\ tlast.op = "set_power"
        /\ tlast.expected = tstate
        /\ tlast.ret = "True"

\* the two window means as np.mean computes them
WindowMeans ==
    LET n == Len(voltage)
    IN [start_voltage |-> MeanOf(SubSeq(voltage, 1, Min2(Window, n))),
        end_voltage   |-> MeanOf(SubSeq(voltage, n - Min2(Window, n) + 1, n))]

\* the error is returned only on equal means, and differing means give a
\* result with both crossings
FlatOrFound ==
    LET m == WindowMeans
        equal == ~RatLt(m.start_voltage, m.end_voltage)
                 /\ ~RatLt(m.end_voltage, m.start_voltage)
    IN /\ "error" \in DOMAIN analysis => equal
       /\ ~equal =>
             /\ "error" \notin DOMAIN analysis
             /\ analysis.indices[1] \in 0..(Len(voltage) - 1)
             /\ analysis.indices[2] \in 0..(Len(voltage) - 1)

(***************************************************************************)
(* C30 (as claimed): for every non-empty waveform of finite values,        *)
(* analyze_waveform returns the "could not find threshold crossings" error *)
(* only when start_voltage, the mean of the first ten samples, equals      *)
(* end_voltage, the mean of the last ten; when the two means differ both   *)
(* threshold crossings are found and the analysis succeeds.                *)
(***************************************************************************)
C30_ErrorOnlyWhenFlat ==
    (apc = "done" /\ voltage # <<>>) => FlatOrFound

\* C30 (as amended): the same for every non-empty waveform whose two window
\* sums stay within the float64 range, so that both means are numbers
C30_ErrorOnlyWhenFlatInRange ==
    (/\ apc = "done" /\ voltage # <<>>
     /\ WindowMeans.start_voltage.den > 0
     /\ WindowMeans.end_voltage.den > 0) => FlatOrFound

\* a waveform longer than the window that starts with one huge negative
\* sample: the means are numbers and differ, and the analysis has succeeded
C30_Witness ==
    /\ apc = "done"
    /\ Len(voltage) > Window
    /\ voltage[1] = -Huge
    /\ \A i \in 2..Len(voltage) : voltage[i] = 0
    /\ "error" \notin DOMAIN analysis
    /\ analysis.transition_type = "rising"

\* the last sample of a successful analysis lies after the main transition
\* and is the one at which the waveform is back from a dip
RecoversAtLastSample ==
    /\ AnalysisOk
    /\ Len(voltage) - 1 > analysis.indices[2]
    /\ Recovered(voltage, Len(voltage) - 1, analysis.thresholds[2],
                 analysis.thresholds[1], analysis.transition_type = "rising")

(***************************************************************************)
(* C31 (as claimed): the bounce scan examines every sample index strictly  *)
(* after end_index up to and including the last sample, so a dip that      *)
(* recovers exactly at the final sample is reported as a bounce region     *)
(* ending there.                                                           *)
(***************************************************************************)
C31_ScanReachesLastSample ==
    RecoversAtLastSample =>
        \E k \in 1..Len(analysis.bounce_regions) :
            analysis.bounce_regions[k][2] = Len(voltage) - 1

\* the region starts and the region ends of the result
RegionStarts == {analysis.bounce_regions[k][1] : k \in 1..Len(analysis.bounce_regions)}
RegionEnds == {analysis.bounce_regions[k][2] : k \in 1..Len(analysis.bounce_regions)}

(***************************************************************************)
(* C32: the bounce regions of a successful analysis are in increasing      *)
(* order and pairwise disjoint (each ends before the next starts), none is *)
(* reported twice, bounce_count is their number, and bounce_duration is    *)
(* the sum of time[e] - time[s] over them, which is not negative on an     *)
(* increasing time axis.                                                   *)
(***************************************************************************)
C32_RegionsOrderedDisjoint ==
    AnalysisOk =>
        LET regions == analysis.bounce_regions
        IN /\ \A k \in 1..Len(regions) : regions[k][1] < regions[k][2]
           /\ \A k \in 1..(Len(regions) - 1) : regions[k][2] < regions[k + 1][1]
           /\ \A k, l \in 1..Len(regions) : regions[k] = regions[l] => k = l
           /\ analysis.bounce_count = Len(regions)
           /\ analysis.bounce_count = Cardinality(RegionEnds)
           /\ analysis.bounce_duration = SumTimes(RegionEnds) - SumTimes(RegionStarts)
           /\ analysis.bounce_duration >= 0

\* two dips, each with its recovery, after the main transition
C32_Witness ==
    /\ AnalysisOk
    /\ Len(analysis.bounce_regions) = 2
    /\ analysis.bounce_duration > 0

(***************************************************************************)
(* LineQualityMeasurer.measure(scope, ranges).  The measurement code is    *)
(* not among the sources: tests/failure_codes.py declares its failure      *)
(* codes, example_flow.py holds its configuration and the required-key     *)
(* check, scope.py selects its measurement items.  The procedure is        *)
(* modelled from section 4.5 of the specification.  Readings are whole     *)
(* numbers: hertz, volts, and pulse widths in sample periods.              *)
(***************************************************************************)
\* "up to N attempts (e.g. 3)", "stop early once >= 2 valid samples"
MaxAttempts == 3
EnoughValid == 2

\* stands for the instrument's overflow value 9.9e37: above every real reading
OverflowSentinel == 200

\* example_flow.py:224-227
RangeKeys == {"ac_frequency_range", "ac_voltage_range", "duty_cycle_range",
              "voltage_stability_range"}
RangeOf == [ac_frequency_range      |-> [min |-> 55, max |-> 65],
            ac_voltage_range        |-> [min |-> 100, max |-> 130],
            duty_cycle_range        |-> [min |-> 45, max |-> 55],
            voltage_stability_range |-> [min |-> 0, max |-> 2]]

\* what the instrument may answer: nothing measured, an acceptable value, a
\* value out of range, the overflow value
FrequencyReadings == {0, 60, 70, OverflowSentinel}
VrmsReadings == {0, 110, 120, 140, OverflowSentinel}
WidthReadings == {0, 8, 12, OverflowSentinel}

\* example_flow.py:15-30: the failure code for the first missing key, or None
check_required_config_flow_AnyPresent(config, required_keys) ==
    IF required_keys # {} /\ required_keys \cap config = {}
    THEN "CONFIGURATION_ERROR" ELSE "None"
check_required_config_flow(config, required_keys) ==
    IF \E key \in required_keys : key \notin config
    THEN "CONFIGURATION_ERROR" ELSE "None"

\* RangeSpec: closed inclusive bound
InRange(x, r) == r.min <= x /\ x <= r.max

\* "a sample is valid only if frequency>0 and Vrms>0 and both below the
\* overflow sentinel"
IsValid_NoSentinel(s) == s.frequency > 0 /\ s.vrms > 0
IsValid(s) ==
    /\ s.frequency > 0 /\ s.vrms > 0
    /\ s.frequency < OverflowSentinel /\ s.vrms < OverflowSentinel

\* the valid samples after one more sample: an invalid one is left out
Collected_ZeroFill(vs, s) ==
    IF IsValid(s) THEN Append(vs, s) ELSE Append(vs, [frequency |-> 0, vrms |-> 0])
Collected(vs, s) == IF IsValid(s) THEN Append(vs, s) ELSE vs

FrequencyOf(ss) == [i \in 1..Len(ss) |-> ss[i].frequency]
VrmsOf(ss) == [i \in 1..Len(ss) |-> ss[i].vrms]
Squares(vs) == [i \in 1..Len(vs) |-> vs[i] * vs[i]]
Values(vs) == {vs[i] : i \in 1..Len(vs)}

\* voltage_stability over a non-empty Vrms set: mean = sum / count,
\* stddev = sqrt(count * sumsq - sum^2) / count
Stability(vs) ==
    [count |-> Len(vs), sum |-> SumSeq(vs), sumsq |-> SumSeq(Squares(vs)),
     min |-> CHOOSE x \in Values(vs) : \A y \in Values(vs) : x <= y,
     max |-> CHOOSE x \in Values(vs) : \A y \in Values(vs) : x >= y]

\* coefficient_of_variation = stddev / mean * 100 within r, compared without
\* the square root: (cv * sum)^2 = 10^4 * (count * sumsq - sum^2)
CvInRange(st, r) ==
    LET spread == 10000 * (st.count * st.sumsq - st.sum * st.sum)
    IN /\ r.min * r.min * st.sum * st.sum <= spread
       /\ spread <= r.max * r.max * st.sum * st.sum

\* duty_cycle = pos_width / (pos_width + neg_width) * 100, rounded down
DutyCycle(pos_width, neg_width) == (100 * pos_width) \div (pos_width + neg_width)
DutyInRange(pos_width, neg_width, r) ==
    /\ r.min * (pos_width + neg_width) <= 100 * pos_width
    /\ 100 * pos_width <= r.max * (pos_width + neg_width)

InitMeasure ==
    /\ mpc = "config"
    /\ ranges \in SUBSET RangeKeys
    /\ attempts = 0
    /\ samples = <<>>
    /\ valid_samples = <<>>
    /\ hwlog = <<>>
    /\ report = NoReport
    /\ mres = "pending"
    /\ IdleSession

MeasureReturn(code) == mres' = code /\ mpc' = "done"

\* "Missing required RangeSpec configuration is a distinct ConfigurationError
\* raised before hardware interaction for that step"
M_CheckConfig ==
    /\ mpc = "config"
    /\ LET config_check == check_required_config_flow(ranges, RangeKeys)
       IN IF config_check # "None"
          THEN MeasureReturn(config_check)
          ELSE mpc' = "scale" /\ UNCHANGED mres
    /\ UNCHANGED <<ranges, attempts, samples, valid_samples, hwlog, report, sesVars, extVars>>
    /\ UNCHANGED <<anaVars, drvVars, cwVars, capVars, tasVars>>

\* step 1: auto-scale, then the vertical scale of the fixed profile
M_Scale ==
    /\ mpc = "scale"
    /\ hwlog' = hwlog \o <<":AUToscale", ":CHANnel1:SCALe">>
    /\ mpc' = "sample"
    /\ UNCHANGED <<ranges, attempts, samples, valid_samples, report, mres, sesVars, extVars>>
    /\ UNCHANGED <<anaVars, drvVars, cwVars, capVars, tasVars>>

\* step 2, one attempt: force a trigger, read frequency, Vpp and Vrms
M_Attempt ==
    /\ mpc = "sample"
    /\ attempts < MaxAttempts
    /\ Len(valid_samples) < EnoughValid
    /\ \E f \in FrequencyReadings, v \in VrmsReadings :
          LET s == [frequency |-> f, vrms |-> v]
          IN /\ samples' = Append(samples, s)
             /\ valid_samples' = Collected(valid_samples, s)
    /\ hwlog' = hwlog \o <<":TFORce", ":MEASure:ITEM?">>
    /\ attempts' = attempts + 1
    /\ UNCHANGED <<mpc, ranges, report, mres, sesVars, extVars>>
    /\ UNCHANGED <<anaVars, drvVars, cwVars, capVars, tasVars>>

\* step 3: the frequency samples and the Vrms samples against their ranges,
\* the full sample set attached on failure; without a valid sample there is
\* nothing to validate (MEASUREMENT_ERROR, failure_codes.py:15)
M_Validate ==
    /\ mpc = "sample"
    /\ attempts >= MaxAttempts \/ Len(valid_samples) >= EnoughValid
    /\ LET fs == FrequencyOf(valid_samples)
           vs == VrmsOf(valid_samples)
           failed == [NoReport EXCEPT !.frequency = fs, !.vrms = vs,
                                      !.attached = samples]
       IN CASE valid_samples = <<>> ->
                  MeasureReturn("MEASUREMENT_ERROR") /\ UNCHANGED report
            [] valid_samples # <<>>
               /\ (\E i \in 1..Len(fs) : ~InRange(fs[i], RangeOf.ac_frequency_range)) ->
                  MeasureReturn("AC_FREQUENCY_ERROR") /\ report' = failed
            [] valid_samples # <<>>
               /\ (\A i \in 1..Len(fs) : InRange(fs[i], RangeOf.ac_frequency_range))
               /\ (\E j \in 1..Len(vs) : ~InRange(vs[j], RangeOf.ac_voltage_range)) ->
                  MeasureReturn("AC_VOLTAGE_ERROR") /\ report' = failed
            [] OTHER -> mpc' = "timing" /\ UNCHANGED <<mres, report>>
    /\ UNCHANGED <<ranges, attempts, samples, valid_samples, hwlog, sesVars, extVars>>
    /\ UNCHANGED <<anaVars, drvVars, cwVars, capVars, tasVars>>

\* step 4: period and pulse widths read again, duty cycle and voltage
\* stability computed and validated; an overflow width is no timing data
\* (INVALID_TIMING_DATA, failure_codes.py:20)
M_Timing ==
    /\ mpc = "timing"
    /\ hwlog' = hwlog \o <<":MEASure:ITEM? PERiod", ":MEASure:ITEM? PWIDth",
                           ":MEASure:ITEM? NWIDth">>
    /\ \E pos_width \in WidthReadings, neg_width \in WidthReadings :
          IF \/ pos_width >= OverflowSentinel \/ neg_width >= OverflowSentinel
             \/ pos_width + neg_width = 0
          THEN MeasureReturn("INVALID_TIMING_DATA") /\ UNCHANGED report
          ELSE LET vs == VrmsOf(valid_samples)
                   st == Stability(vs)
               IN /\ report' = [frequency |-> FrequencyOf(valid_samples),
                                vrms |-> vs,
                                widths |-> <<pos_width, neg_width>>,
                                duty_cycle |-> DutyCycle(pos_width, neg_width),
                                stability |-> st,
                                attached |-> <<>>]
                  /\ MeasureReturn(
                        IF ~DutyInRange(pos_width, neg_width, RangeOf.duty_cycle_range)
                        THEN "DUTY_CYCLE_ERROR"
                        ELSE IF ~CvInRange(st, RangeOf.voltage_stability_range)
                             THEN "VOLTAGE_STABILITY_ERROR"
                             ELSE "NO_FAILURE")
    /\ UNCHANGED <<ranges, attempts, samples, valid_samples, sesVars, extVars>>
    /\ UNCHANGED <<anaVars, drvVars, cwVars, capVars, tasVars>>

NextMeasure == M_CheckConfig \/ M_Scale \/ M_Attempt \/ M_Validate \/ M_Timing

StartMeasure ==
    InitMeasure /\ IdleAnalyze /\ IdleDriver /\ IdleFraming /\ IdleCapture /\ IdleTasmota
    /\ IdlePower /\ IdleFirmware /\ IdleFlow

SpecMeasure == StartMeasure /\ [][NextMeasure]_vars

\* the validity criterion as the specification states it
MeetsCriterion(s) ==
    /\ s.frequency > 0 /\ s.vrms > 0
    /\ s.frequency < OverflowSentinel /\ s.vrms < OverflowSentinel

(***************************************************************************)
(* C25: the line-quality measurement makes at most 3 attempts, counts as   *)
(* valid exactly the samples with frequency > 0, Vrms > 0 and both below   *)
(* the overflow sentinel, and makes an attempt only while fewer than 3     *)
(* attempts have been made and fewer than 2 valid samples are collected.   *)
(***************************************************************************)
C25_AttemptsBounded ==
    /\ [](/\ attempts <= MaxAttempts
          /\ attempts = Len(samples)
          /\ valid_samples = SelectSeq(samples, MeetsCriterion))
    /\ [][attempts' # attempts =>
            /\ attempts' = attempts + 1
            /\ attempts < MaxAttempts
            /\ Len(SelectSeq(samples, MeetsCriterion)) < EnoughValid]_vars

\* the third attempt has been made because the first two gave only one valid
\* sample, the other being an overflow reading
C25_Witness ==
    /\ attempts = 3
    /\ Len(valid_samples) = 2
    /\ \E i \in 1..2 : samples[i].vrms = OverflowSentinel
    /\ mpc = "timing"

(***************************************************************************)
(* C26: no sample at or above the overflow sentinel contributes to the     *)
(* reported statistics or to an accepted result, and no invalid reading is *)
(* replaced by another value: the reported frequency and Vrms values are   *)
(* those of the samples meeting the validity criterion and no others, the  *)
(* statistics are taken over exactly these, and an accepted result holds   *)
(* no reading at or above the sentinel.                                    *)
(***************************************************************************)
C26_InvalidExcluded ==
    report # NoReport =>
        LET good == SelectSeq(samples, MeetsCriterion)
        IN /\ report.frequency = FrequencyOf(good)
           /\ report.vrms = VrmsOf(good)
           /\ \A i \in 1..Len(report.vrms) :
                 report.vrms[i] < OverflowSentinel /\ report.frequency[i] < OverflowSentinel
           /\ mres \in {"NO_FAILURE", "DUTY_CYCLE_ERROR", "VOLTAGE_STABILITY_ERROR"} =>
                 /\ report.stability.count = Len(good)
                 /\ report.stability.sum = SumSeq(VrmsOf(good))
                 /\ report.stability.min > 0
                 /\ report.stability.max < OverflowSentinel
           /\ mres = "NO_FAILURE" =>
                 \A i \in 1..Len(report.widths) : report.widths[i] < OverflowSentinel

\* a result was accepted after a run in which an overflow reading and a zero
\* reading were among the samples
C26_Witness ==
    /\ mres = "NO_FAILURE"
    /\ \E i \in 1..Len(samples) : samples[i].vrms = OverflowSentinel
    /\ \E i \in 1..Len(samples) : samples[i].frequency = 0
    /\ report.stability.count = 1

MaxSessionOps == 3

\* the instrument's reply: a letter for the sample rate ("S"), the trigger
\* status ("T") and a well-formed ten-field preamble ("P"), and a block with
\* the nine-digit length header the instrument writes
ReplyTo(command) ==
    CASE command = ":ACQ:SRAT?"  -> <<83, Newline>>
      [] command = ":TRIG:STAT?" -> <<84, Newline>>
      [] command = ":WAV:PRE?"   -> <<80, Newline>>
      [] command = ":WAV:DATA?"  -> BlockBytes(9, <<200>>) \o <<Newline>>
      [] OTHER                   -> <<>>

\* lines 203-209: the last commands of setup_for_relay_test, the sample rate
\* query sent once by send_command and once more by query
SetupCommands == <<":TRIG:EDGE:SLOP POS", ":TRIG:EDGE:LEV 2.5", ":ACQ:TYPE NORM",
                   ":ACQ:SRAT?">>

\* send_command for each of cs: what the instrument has sent after them
RECURSIVE AfterSending(_, _)
AfterSending(w, cs) ==
    IF cs = <<>> THEN w ELSE AfterSending(w \o ReplyTo(Head(cs)), Tail(cs))

\* lines 121-165, query(command) with p bytes of w read before: the loop
\* takes chunks until the response ends with the terminator, so it can end at
\* any terminator among the unread bytes; [got, pos]
QueryOutcomes(w, p, command) ==
    LET sentAll == AfterSending(w, <<command>>)
    IN { [wire |-> sentAll, pos |-> k,
          got |-> QueryResult(SubSeq(sentAll, p + 1, k))] :
            k \in {j \in (p + 1)..Len(sentAll) : sentAll[j] = Newline} }

\* lines 240-259: the preamble is usable when it has ten numeric fields
PreambleUsable(got) == got = [ok |-> TRUE, codes |-> <<80>>]

InitSession ==
    /\ socket = "open"
    /\ connected = TRUE
    /\ drvLog = <<>>
    /\ wire = <<>>
    /\ wireEnd = "timeout"
    /\ block = [n |-> 9, l |-> 1, kind |-> "valid"]
    /\ pos = 0
    /\ response = <<>>
    /\ header_read = FALSE
    /\ data_length = 0
    /\ preamble = [fields |-> 0, numeric |-> FALSE, scale |-> NoScale]
    /\ sent = <<>>
    /\ splitHeader = FALSE
    /\ cwresult = NoWaveform
    /\ waveform = <<>>
    /\ cwpc = "idle"
    /\ spc = "ready"
    /\ qlog = <<>>
    /\ nops = 0

\* lines 171-215
S_Setup ==
    /\ spc = "ready" /\ nops < MaxSessionOps
    /\ is_connected
    /\ \E o \in QueryOutcomes(AfterSending(wire, SetupCommands), pos, ":ACQ:SRAT?") :
          /\ wire' = o.wire
          /\ pos' = o.pos
          /\ qlog' = Append(qlog, [command |-> ":ACQ:SRAT?", got |-> o.got])
    /\ sent' = sent \o SetupCommands \o <<":ACQ:SRAT?">>
    /\ nops' = nops + 1
    /\ UNCHANGED <<spc, wireEnd, block, response, header_read, data_length, preamble,
                   splitHeader, cwresult, waveform, cwpc>>
    /\ UNCHANGED <<anaVars, drvVars, capVars, tasVars, measVars, extVars>>

\* lines 121-169, called by the test for the trigger status or the sample rate
S_Query ==
    /\ spc = "ready" /\ nops < MaxSessionOps
    /\ is_connected
    /\ \E command \in {":TRIG:STAT?", ":ACQ:SRAT?"} :
          /\ \E o \in QueryOutcomes(wire, pos, command) :
                /\ wire' = o.wire
                /\ pos' = o.pos
                /\ qlog' = Append(qlog, [command |-> command, got |-> o.got])
          /\ sent' = Append(sent, command)
    /\ nops' = nops + 1
    /\ UNCHANGED <<spc, wireEnd, block, response, header_read, data_length, preamble,
                   splitHeader, cwresult, waveform, cwpc>>
    /\ UNCHANGED <<anaVars, drvVars, capVars, tasVars, measVars, extVars>>

\* lines 226-270: the preamble query, then :WAV:DATA?; None (and :RUN, line
\* 329) when the preamble is not usable
S_CaptureStart ==
    /\ spc = "ready" /\ nops < MaxSessionOps
    /\ is_connected
    /\ \E o \in QueryOutcomes(wire, pos, ":WAV:PRE?") :
          /\ pos' = o.pos
          /\ qlog' = Append(qlog, [command |-> ":WAV:PRE?", got |-> o.got])
          /\ IF PreambleUsable(o.got)
             THEN /\ wire' = AfterSending(o.wire, <<":WAV:DATA?">>)
                  /\ sent' = sent \o <<":STOP", ":WAV:SOUR", ":WAV:FORM BYTE",
                                       ":WAV:PRE?", ":WAV:DATA?">>
                  /\ spc' = "reading"
             ELSE /\ wire' = o.wire
                  /\ sent' = sent \o <<":STOP", ":WAV:SOUR", ":WAV:FORM BYTE",
                                       ":WAV:PRE?", ":RUN">>
                  /\ spc' = "ready"
    /\ response' = <<>>
    /\ header_read' = FALSE
    /\ data_length' = 0
    /\ cwresult' = NoWaveform
    /\ nops' = nops + 1
    /\ UNCHANGED <<wireEnd, block, preamble, splitHeader, waveform, cwpc>>
    /\ UNCHANGED <<anaVars, drvVars, capVars, tasVars, measVars, extVars>>

\* lines 273-329: one pass of the block read loop; with nothing left to read
\* recv raises socket.timeout (None); :RUN is sent when the method ends
S_CaptureRecv ==
    /\ spc = "reading"
    /\ IF pos < Len(wire)
       THEN \E n \in 1..Min2(RecvMax, Len(wire) - pos) :
               \E st \in {LoopStep([response |-> response, header_read |-> header_read,
                                    data_length |-> data_length],
                                   SubSeq(wire, pos + 1, pos + n))} :
                  /\ pos' = pos + n
                  /\ response' = st.response
                  /\ header_read' = st.header_read
                  /\ data_length' = st.data_length
                  /\ cwresult' = IF st.exit = "break" THEN Extract(st) ELSE NoWaveform
                  /\ spc' = IF st.exit = "continue" THEN "reading" ELSE "ready"
                  /\ sent' = IF st.exit = "continue" THEN sent ELSE Append(sent, ":RUN")
       ELSE /\ cwresult' = NoWaveform
            /\ spc' = "ready"
            /\ sent' = Append(sent, ":RUN")
            /\ UNCHANGED <<pos, response, header_read, data_length>>
    /\ UNCHANGED <<wire, wireEnd, block, preamble, splitHeader, waveform, cwpc, qlog, nops>>
    /\ UNCHANGED <<anaVars, drvVars, capVars, tasVars, measVars, extVars>>

NextSession == S_Setup \/ S_Query \/ S_CaptureStart \/ S_CaptureRecv

StartSession ==
    InitSession /\ IdleAnalyze /\ IdleCapture /\ IdleTasmota /\ IdleMeasure
    /\ IdlePower /\ IdleFirmware /\ IdleFlow

SpecSession == StartSession /\ [][NextSession]_vars

(***************************************************************************)
(* C28 (as claimed): on an instrument that sends one reply per query       *)
(* command, every query() returns the reply to the command it has just     *)
(* sent, and between operations nothing the instrument has sent is left    *)
(* unread in the connection.                                               *)
(***************************************************************************)
C28_QueryGetsOwnReply ==
    /\ \A i \in 1..Len(qlog) :
          qlog[i].got = [ok |-> TRUE, codes |-> Strip(ReplyTo(qlog[i].command))]
    /\ spc = "ready" => pos = Len(wire)

(***************************************************************************)
(* One call of TasmotaSerialDriver.set_power or get_power_state            *)
(* (tasmota_driver.py), exchange by exchange.  A reply is what send_command*)
(* returns: {} ("empty": no connection, a failed write, or a reply that    *)
(* parses to the empty object), a parsed JSON object with a StatusSTS      *)
(* section ("json_sts"), with a Status section ("json_status"), or with    *)
(* neither ("json_other"), or {"raw_response": text} ("raw").  What the    *)
(* text or the StatusSTS section says is a set of <<key, value>>: key 0 is *)
(* POWER, key k is POWERk; the separators of the patterns (" ", "=", ": ", *)
(* " = ") are not told apart.  power is the Power field of the Status      *)
(* section, the bit mask of all relays.                                    *)
(***************************************************************************)
MaxSay == 2
RelayNumbers == {1, 2}
PowerKeys == {0} \cup RelayNumbers
PowerWords == {"ON", "OFF", "SAME"}
\* the Power field of Status: "0" and "1" stand for the values the code lists
\* as off and on, "2" and "3" for masks it does not list
PowerMasks == {"0", "1", "2", "3"}

Sayings == {S \in SUBSET (PowerKeys \X PowerWords) : Cardinality(S) <= MaxSay}
\* a JSON object holds each key once
SaysOnce(S) == \A a, b \in S : a[1] = b[1] => a = b

PowerReplies ==
    {NoReply}
    \cup {[kind |-> "raw", says |-> S, power |-> "absent"] : S \in Sayings}
    \cup {[kind |-> "json_sts", says |-> S, power |-> "absent"] :
              S \in {T \in Sayings : SaysOnce(T)}}
    \cup {[kind |-> "json_other", says |-> {}, power |-> "absent"]}
    \cup {[kind |-> "json_status", says |-> {}, power |-> m] :
              m \in PowerMasks \cup {"absent"}}

\* on_patterns / off_patterns (lines 204-230): POWER{n} ..., and for relay 1
\* the patterns of a single-relay device as well
PatternKeys(relay_number) == IF relay_number = 1 THEN {1, 0} ELSE {relay_number}

\* the pattern search over raw_response, ON first (lines 254-270, 278-289, 313-325)
FromRaw(r, relay_number) ==
    IF r.kind # "raw" THEN "None"
    ELSE IF \E k \in PatternKeys(relay_number) : <<k, "ON">> \in r.says THEN "True"
    ELSE IF \E k \in PatternKeys(relay_number) : <<k, "OFF">> \in r.says THEN "False"
    ELSE "None"

\* StatusSTS[power_key] (lines 236-251)
FromStatusSTS(r, relay_number) ==
    LET power_key == IF relay_number = 1 THEN 0 ELSE relay_number
    IN  IF r.kind # "json_sts" THEN "None"
        ELSE IF <<power_key, "ON">> \in r.says THEN "True"
        ELSE IF <<power_key, "OFF">> \in r.says THEN "False"
        ELSE "None"

\* Status["Power"] (lines 299-310), whatever relay_number is
FromStatusPower(r) ==
    IF r.kind # "json_status" THEN "None"
    ELSE CASE r.power = "0" -> "False"
           [] r.power = "1" -> "True"
           [] OTHER       -> "None"

\* Method 1, 2 and 3 of get_power_state
Method1(r, relay_number) ==
    IF FromStatusSTS(r, relay_number) # "None" THEN FromStatusSTS(r, relay_number)
    ELSE FromRaw(r, relay_number)
Method2(r, relay_number) == FromRaw(r, relay_number)
Method3(r, relay_number) ==
    IF FromStatusPower(r) # "None" THEN FromStatusPower(r)
    ELSE FromRaw(r, relay_number)

\* success_patterns of set_power (lines 357-375)
StateStr(state) == IF state = "True" THEN "ON" ELSE "OFF"
Success(r, state, relay_number) ==
    /\ r.kind = "raw"
    /\ \E k \in PatternKeys(relay_number) :
          <<k, StateStr(state)>> \in r.says \/ <<k, "SAME">> \in r.says

InitPower ==
    /\ serial \in {"open", "None"}
    /\ ppc = "m1"
    /\ preq \in [fn : {"set_power", "get_power_state"}, state : {"True", "False"},
                 relay_number : RelayNumbers]
    /\ pverify = FALSE
    /\ plog = <<>>
    /\ pseen = NoReply
    /\ pstate = "pending"
    /\ pret = "pending"

\* send_command (lines 96-145): refused without a connection; {} when the
\* write raises
Exchange(cmd, r, written) ==
    /\ r \in PowerReplies
    /\ IF tasmota_is_connected THEN written \/ r = NoReply
                               ELSE ~written /\ r = NoReply
    /\ plog' = Append(plog, [cmd |-> cmd, written |-> written])
    /\ pseen' = r

\* get_power_state has returned got
Returned(got) ==
    IF preq.fn = "get_power_state"
    THEN pstate' = got /\ pret' = got /\ ppc' = "done" /\ UNCHANGED pverify
    ELSE IF pverify
         THEN /\ pret' = PyBool(AlreadyThere(got, preq.state))
              /\ ppc' = "done"
              /\ UNCHANGED <<pstate, pverify>>
         ELSE /\ pstate' = got
              /\ UNCHANGED pverify
              /\ IF AlreadyThere(got, preq.state)
                 THEN pret' = "True" /\ ppc' = "done"
                 ELSE pret' = pret /\ ppc' = "cmd"

\* Method 1: Status 11 (lines 232-270)
G_Status11 ==
    /\ ppc = "m1"
    /\ \E r \in PowerReplies, written \in BOOLEAN :
          /\ Exchange("Status 11", r, written)
          /\ IF Method1(r, preq.relay_number) # "None"
             THEN Returned(Method1(r, preq.relay_number))
             ELSE ppc' = "m2" /\ UNCHANGED <<pverify, pstate, pret>>
    /\ UNCHANGED <<preq, serial>>
    /\ UNCHANGED <<anaVars, drvVars, cwVars, capVars, relVars, measVars, sesVars,
                   fwVars, flowVars>>

\* Method 2: Power<n> without an argument (lines 272-289)
G_PowerQuery ==
    /\ ppc = "m2"
    /\ \E r \in PowerReplies, written \in BOOLEAN :
          /\ Exchange("Power", r, written)
          /\ IF Method2(r, preq.relay_number) # "None"
             THEN Returned(Method2(r, preq.relay_number))
             ELSE ppc' = "m3" /\ UNCHANGED <<pverify, pstate, pret>>
    /\ UNCHANGED <<preq, serial>>
    /\ UNCHANGED <<anaVars, drvVars, cwVars, capVars, relVars, measVars, sesVars,
                   fwVars, flowVars>>

\* Method 3: Status 0, and the return of None (lines 291-331)
G_Status0 ==
    /\ ppc = "m3"
    /\ \E r \in PowerReplies, written \in BOOLEAN :
          /\ Exchange("Status 0", r, written)
          /\ Returned(Method3(r, preq.relay_number))
    /\ UNCHANGED <<preq, serial>>
    /\ UNCHANGED <<anaVars, drvVars, cwVars, capVars, relVars, measVars, sesVars,
                   fwVars, flowVars>>

\* set_power, lines 377-419: Power<n> ON / OFF and what follows its reply
S_Command ==
    /\ ppc = "cmd"
    /\ \E r \in PowerReplies, written \in BOOLEAN :
          /\ Exchange("Power " \o StateStr(preq.state), r, written)
          /\ CASE r = NoReply ->
                    pret' = "False" /\ ppc' = "done" /\ UNCHANGED pverify
               [] r # NoReply /\ Success(r, preq.state, preq.relay_number) ->
                    pret' = "True" /\ ppc' = "done" /\ UNCHANGED pverify
               [] OTHER ->
                    pverify' = TRUE /\ ppc' = "m1" /\ UNCHANGED pret
    /\ UNCHANGED <<preq, pstate, serial>>
    /\ UNCHANGED <<anaVars, drvVars, cwVars, capVars, relVars, measVars, sesVars,
                   fwVars, flowVars>>

NextPower == G_Status11 \/ G_PowerQuery \/ G_Status0 \/ S_Command

StartPower ==
    InitPower /\ IdleAnalyze /\ IdleDriver /\ IdleFraming /\ IdleCapture /\ IdleRelay
    /\ IdleMeasure /\ IdleSession /\ IdleFirmware /\ IdleFlow

SpecPower == StartPower /\ [][NextPower]_vars

\* the state-changing commands among the send_command calls made
StateChanging == SelectSeq(plog, LAMBDA e : e.cmd \in {"Power ON", "Power OFF"})
Written(log) == SelectSeq(log, LAMBDA e : e.written)
SetPowerDone == ppc = "done" /\ preq.fn = "set_power"

(***************************************************************************)
(* C34 (as claimed): set_power(state, n) sends no state-changing Power     *)
(* command and returns True when get_power_state(n) already reports the    *)
(* requested state; when the reported state is unknown or different it     *)
(* sends exactly one state-changing Power command.                         *)
(***************************************************************************)
C34_OneCommandUnlessThere ==
    SetPowerDone =>
        IF pstate = preq.state
        THEN Len(Written(StateChanging)) = 0 /\ pret = "True"
        ELSE Len(Written(StateChanging)) = 1

\* C34 (as amended): in the second case set_power hands exactly one
\* state-changing Power command to send_command, which writes it when the
\* port is open and the write does not fail
C34_OneCommandHandedOver ==
    SetPowerDone =>
        IF pstate = preq.state
        THEN Len(StateChanging) = 0 /\ pret = "True"
        ELSE /\ Len(StateChanging) = 1
             /\ ~tasmota_is_connected => Len(Written(plog)) = 0 /\ pret = "False"
             /\ Len(Written(StateChanging)) <= 1

\* set_power found the relay in the other state, wrote its one command, got
\* no success pattern back and verified the new state by reading it
C34_Witness ==
    /\ SetPowerDone
    /\ pstate \in {"True", "False"} /\ pstate # preq.state
    /\ Len(Written(StateChanging)) = 1
    /\ pverify
    /\ pret = "True"

\* the reply r reports value for relay relay_number: under that relay's own
\* key, or under POWER, the key of a single-relay device, for relay 1
Reports(r, relay_number, value) ==
    /\ r.kind \in {"raw", "json_sts"}
    /\ \E k \in PatternKeys(relay_number) :
          <<k, IF value = "True" THEN "ON" ELSE "OFF">> \in r.says

(***************************************************************************)
(* C35 (as claimed): get_power_state(relay_number) only ever returns a     *)
(* state that the device reported for that relay; a reply that describes   *)
(* only other relays, or a device-wide aggregate Power value, never        *)
(* determines the result, for any of the three query methods.              *)
(***************************************************************************)
C35_OnlyReportedStates ==
    (ppc = "done" /\ preq.fn = "get_power_state" /\ pret \in {"True", "False"}) =>
        Reports(pseen, preq.relay_number, pret)

(***************************************************************************)
(* check_firmware_version (tasmota_tests.py:617-779) with the version      *)
(* helpers of utils.py.  Version strings are sequences of character codes  *)
(* over "0", "1", "." and "v".                                             *)
(***************************************************************************)
MaxVersionLen == 3
Dot == 46
VersionChars == {AsciiZero, AsciiZero + 1, Dot, 118}
VersionStrings == UNION {[1..n -> VersionChars] : n \in 0..MaxVersionLen}

\* the digits of s from position i on
RECURSIVE DigitRun(_, _)
DigitRun(s, i) ==
    IF i <= Len(s) /\ IsDigit(s[i]) THEN 1 + DigitRun(s, i + 1) ELSE 0

\* re.match(r"(\d+(\.\d+)*)", s): the length of the match that starts with
\* the n characters already matched
RECURSIVE MatchFrom(_, _)
MatchFrom(s, n) ==
    IF n + 1 <= Len(s) /\ s[n + 1] = Dot /\ DigitRun(s, n + 2) > 0
    THEN MatchFrom(s, n + 1 + DigitRun(s, n + 2))
    ELSE n

\* utils.py:5-17
extract_version_numbers(version_str) ==
    IF DigitRun(version_str, 1) > 0
    THEN SubSeq(version_str, 1, MatchFrom(version_str, DigitRun(version_str, 1)))
    ELSE version_str

\* str.split("."): the parts between the dots, empty ones included
RECURSIVE SplitDots(_)
SplitDots(s) ==
    IF \A k \in 1..Len(s) : s[k] # Dot THEN <<s>>
    ELSE LET d == CHOOSE k \in 1..Len(s) : s[k] = Dot /\ \A j \in 1..(k - 1) : s[j] # Dot
         IN <<SubSeq(s, 1, d - 1)>> \o SplitDots(SubSeq(s, d + 1, Len(s)))

\* [int(p) for p in s.split(".")]: ok = FALSE stands for ValueError
IntParts(s) ==
    LET parts == SplitDots(s)
    IN  IF \A k \in 1..Len(parts) : ParseInt(parts[k]).ok
        THEN [ok |-> TRUE, parts |-> [k \in 1..Len(parts) |-> ParseInt(parts[k]).value]]
        ELSE [ok |-> FALSE, parts |-> <<>>]

\* the padding loops of utils.py:36-40
Padded(parts, n) == [k \in 1..n |-> IF k <= Len(parts) THEN parts[k] ELSE 0]

\* the comparison loop of utils.py:42-51
RECURSIVE MeetsFrom(_, _, _)
MeetsFrom(cur, min, i) ==
    IF i > Len(cur) THEN TRUE
    ELSE IF cur[i] > min[i] THEN TRUE
    ELSE IF cur[i] < min[i] THEN FALSE
    ELSE MeetsFrom(cur, min, i + 1)

\* utils.py:20-54: a version that int() rejects is answered with False
compare_versions(current_version, minimum_version) ==
    LET c == IntParts(extract_version_numbers(current_version))
        m == IntParts(extract_version_numbers(minimum_version))
        n == Max2(Len(c.parts), Len(m.parts))
    IN  IF c.ok /\ m.ok
        THEN [raised |-> FALSE, value |-> MeetsFrom(Padded(c.parts, n), Padded(m.parts, n), 1)]
        ELSE [raised |-> FALSE, value |-> FALSE]

\* tasmota_tests.py:674-779, after the driver has connected
check_firmware_version(ver, min_ver) ==
    IF ver = <<>>
    THEN [code |-> "INVALID_RESPONSE", msg |-> "Failed to get firmware version"]
    ELSE IF min_ver = <<>>
    THEN [code |-> "NO_FAILURE", msg |-> "Current firmware version"]
    ELSE LET meets_requirement == compare_versions(ver, min_ver)
         IN  IF meets_requirement.raised
             THEN [code |-> "NO_FAILURE", msg |-> "Could not compare versions"]
             ELSE IF meets_requirement.value
             THEN [code |-> "NO_FAILURE", msg |-> "meets minimum requirement"]
             ELSE [code |-> "FIRMWARE_VERSION_MISMATCH",
                   msg |-> "does not meet minimum requirement"]

InitFirmware ==
    /\ fpc = "input"
    /\ version \in VersionStrings
    /\ min_version \in VersionStrings
    /\ fres = "pending"
    /\ fmsg = "none"

F_Check ==
    /\ fpc = "input"
    /\ fres' = check_firmware_version(version, min_version).code
    /\ fmsg' = check_firmware_version(version, min_version).msg
    /\ fpc' = "done"
    /\ UNCHANGED <<version, min_version>>
    /\ UNCHANGED <<anaVars, drvVars, cwVars, capVars, tasVars, measVars, sesVars,
                   powVars, flowVars>>

NextFirmware == F_Check

StartFirmware ==
    InitFirmware /\ IdleAnalyze /\ IdleDriver /\ IdleFraming /\ IdleCapture /\ IdleTasmota
    /\ IdleMeasure /\ IdleSession /\ IdlePower /\ IdleFlow

SpecFirmware == StartFirmware /\ [][NextFirmware]_vars

\* s splits into numeric components: digits, or digits and dot-separated
\* groups of digits, from its first character on
Comparable(s) == IntParts(extract_version_numbers(s)).ok

\* the parsed version is numerically below the parsed minimum
NumericallyBelow(cur, min) ==
    LET c == IntParts(extract_version_numbers(cur)).parts
        m == IntParts(extract_version_numbers(min)).parts
        n == Max2(Len(c), Len(m))
    IN \E i \in 1..n :
          /\ Padded(c, n)[i] < Padded(m, n)[i]
          /\ \A j \in 1..(i - 1) : Padded(c, n)[j] = Padded(m, n)[j]

(***************************************************************************)
(* C39 (as claimed): in check_firmware_version, when a minimum version is  *)
(* required and the device version or the minimum version cannot be        *)
(* compared (it does not parse into numeric components), the test reports  *)
(* the current version with NO_FAILURE ("Could not compare versions"), not *)
(* FIRMWARE_VERSION_MISMATCH; FIRMWARE_VERSION_MISMATCH is returned only   *)
(* when the parsed version is numerically below the minimum.               *)
(***************************************************************************)
C39_UncomparableIsNotMismatch ==
    (fpc = "done" /\ version # <<>> /\ min_version # <<>>) =>
        /\ (~Comparable(version) \/ ~Comparable(min_version)) =>
              fres = "NO_FAILURE" /\ fmsg = "Could not compare versions"
        /\ fres = "FIRMWARE_VERSION_MISMATCH" =>
              /\ Comparable(version) /\ Comparable(min_version)
              /\ NumericallyBelow(version, min_version)

(***************************************************************************)
(* The two example flows (example_1/example_flow.py:34-177 and             *)
(* example_2/example_flow.py:33-209).  A configuration is the set of keys  *)
(* present in cellConfig and cellSettings and the set of keys whose value  *)
(* is truthy; a test step answers with the failure code of its TestResult. *)
(***************************************************************************)
MaxMissing == 1
Flows == {"example_1", "example_2"}

\* example_1/example_flow.py:50-66, example_2/example_flow.py:61-67
RequiredConfig(flow) ==
    IF flow = "example_1"
    THEN {"ping_url", "num_pings", "ping_interval", "min_write_speed_mbps",
          "num_test_files", "enable_camera_test", "cpu_stress_duration",
          "battery_test_enable", "skip_screen_resolution_check",
          "min_resolution_width", "min_resolution_height",
          "battery_percentage_range", "battery_voltage_range", "cpu_usage_range",
          "write_speed_mbps"}
    ELSE {"baudrate", "oscilloscope_port", "oscilloscope_timebase", "relay_number",
          "enable_intentional_fail"}
\* example_2/example_flow.py:74-76
RequiredSettings(flow) == IF flow = "example_1" THEN {} ELSE {"oscilloscope_ip"}
\* the keys read with .get() that need not be there
OptionalConfig(flow) ==
    IF flow = "example_1" THEN {"enable_intentional_fail"} ELSE {"min_firmware_version"}
\* the keys whose truth value the flow branches on
Flags ==
    {"enable_intentional_fail", "enable_camera_test", "battery_test_enable",
     "min_firmware_version", "oscilloscope_ip"}

\* the test steps in the order of the flow; when: the key that must be truthy
FlowSteps(flow) ==
    IF flow = "example_1"
    THEN << [name |-> "check_system_dependencies", when |-> "always"],
            [name |-> "check_internet_connection", when |-> "always"],
            [name |-> "is_drive_present", when |-> "always"],
            [name |-> "disk_test", when |-> "always"],
            [name |-> "take_picture", when |-> "enable_camera_test"],
            [name |-> "cpu_stress_test", when |-> "always"],
            [name |-> "get_screen_resolution", when |-> "always"],
            [name |-> "check_battery_status", when |-> "battery_test_enable"] >>
    ELSE << [name |-> "detect_tasmota_serial_port", when |-> "always"],
            [name |-> "check_firmware_version", when |-> "min_firmware_version"],
            [name |-> "detect_oscilloscope", when |-> "always"],
            [name |-> "connect_oscilloscope", when |-> "always"],
            [name |-> "test_relay_response", when |-> "always"] >>

\* rc.failure_code of a step
StepCodes == {"NO_FAILURE", "EXCEPTION", "OSCILLOSCOPE_ERROR"}

Configurations(flow) ==
    { [config |-> c, settings |-> st, truthy |-> t] :
        c \in { (RequiredConfig(flow) \ d) \cup o :
                  d \in {x \in SUBSET RequiredConfig(flow) : Cardinality(x) <= MaxMissing},
                  o \in SUBSET OptionalConfig(flow) },
        st \in SUBSET RequiredSettings(flow),
        t \in SUBSET Flags }

InitFlow ==
    /\ xpc = "start"
    /\ xflow \in Flows
    /\ xconfig \in Configurations(xflow)
    /\ xconfig.truthy \subseteq (xconfig.config \cup xconfig.settings)
    /\ xnext = 1
    /\ failure_code = "NO_FAILURE"
    /\ xlog = <<>>

\* ctx.wrap_up(failure_code); return
WrapUp(code) ==
    /\ failure_code' = code
    /\ xlog' = Append(xlog, [kind |-> "wrap_up", name |-> "wrap_up", code |-> code])
    /\ xpc' = "returned"
    /\ UNCHANGED <<xflow, xconfig, xnext>>

\* the guard in front of a step: example_1 asks for failure_code == NO_FAILURE,
\* example_2 has returned by then; both ask for the step's flag
Runs_Regardless(flow, fc, truthy, step) ==
    step.when = "always" \/ step.when \in truthy
Runs(flow, fc, truthy, step) ==
    /\ flow = "example_1" => fc = "NO_FAILURE"
    /\ step.when = "always" \/ step.when \in truthy

\* the configuration checks in front of the steps
X_CheckConfig ==
    /\ xpc = "start"
    /\ LET config_check == check_required_config_flow(xconfig.config, RequiredConfig(xflow))
           settings_check == check_required_config_flow(xconfig.settings, RequiredSettings(xflow))
       IN  IF config_check # "None" THEN WrapUp(config_check)
           ELSE IF settings_check # "None" THEN WrapUp(settings_check)
           ELSE IF xflow = "example_1" /\ "enable_intentional_fail" \in xconfig.truthy
           THEN \* FailureCodes.INTENTIONAL_TEST_FAIL is no member of
                \* example_1/tests/failure_codes.py: the lookup raises unless
                \* the base class provides the member
                \/ /\ xpc' = "raised"
                   /\ UNCHANGED <<xflow, xconfig, xnext, failure_code, xlog>>
                \/ /\ failure_code' = "INTENTIONAL_TEST_FAIL"
                   /\ xpc' = "steps"
                   /\ UNCHANGED <<xflow, xconfig, xnext, xlog>>
           ELSE /\ xpc' = "steps"
                /\ UNCHANGED <<xflow, xconfig, xnext, failure_code, xlog>>
    /\ UNCHANGED <<anaVars, drvVars, cwVars, capVars, tasVars, measVars, sesVars,
                   powVars, fwVars>>

\* example_2/example_flow.py:133-141: no oscilloscope IP in front of
\* detect_oscilloscope
NoOscilloscopeIp ==
    /\ xflow = "example_2"
    /\ xnext = 3
    /\ "oscilloscope_ip" \notin xconfig.truthy

X_NoIp ==
    /\ xpc = "steps"
    /\ NoOscilloscopeIp
    /\ WrapUp("OSCILLOSCOPE_ERROR")
    /\ UNCHANGED <<anaVars, drvVars, cwVars, capVars, tasVars, measVars, sesVars,
                   powVars, fwVars>>

\* one test step is called and its TestResult handled
X_Step ==
    /\ xpc = "steps"
    /\ xnext <= Len(FlowSteps(xflow))
    /\ ~NoOscilloscopeIp
    /\ Runs(xflow, failure_code, xconfig.truthy, FlowSteps(xflow)[xnext])
    /\ \E rc \in StepCodes :
          LET ran == Append(xlog, [kind |-> "step", name |-> FlowSteps(xflow)[xnext].name,
                                   code |-> rc])
          IN  IF rc # "NO_FAILURE" /\ xflow = "example_2" /\ xnext < Len(FlowSteps(xflow))
              THEN /\ failure_code' = rc
                   /\ xlog' = Append(ran, [kind |-> "wrap_up", name |-> "wrap_up", code |-> rc])
                   /\ xpc' = "returned"
                   /\ UNCHANGED <<xflow, xconfig, xnext>>
              ELSE /\ failure_code' = IF rc # "NO_FAILURE" THEN rc ELSE failure_code
                   /\ xlog' = ran
                   /\ xnext' = xnext + 1
                   /\ UNCHANGED <<xpc, xflow, xconfig>>
    /\ UNCHANGED <<anaVars, drvVars, cwVars, capVars, tasVars, measVars, sesVars,
                   powVars, fwVars>>

\* the guard of a step is false: the flow goes on to the next one
X_Skip ==
    /\ xpc = "steps"
    /\ xnext <= Len(FlowSteps(xflow))
    /\ ~NoOscilloscopeIp
    /\ ~Runs(xflow, failure_code, xconfig.truthy, FlowSteps(xflow)[xnext])
    /\ xnext' = xnext + 1
    /\ UNCHANGED <<xpc, xflow, xconfig, failure_code, xlog>>
    /\ UNCHANGED <<anaVars, drvVars, cwVars, capVars, tasVars, measVars, sesVars,
                   powVars, fwVars>>

\* the ctx.wrap_up(failure_code) at the end of the flow
X_WrapUp ==
    /\ xpc = "steps"
    /\ xnext > Len(FlowSteps(xflow))
    /\ WrapUp(failure_code)
    /\ UNCHANGED <<anaVars, drvVars, cwVars, capVars, tasVars, measVars, sesVars,
                   powVars, fwVars>>

NextFlow == X_CheckConfig \/ X_NoIp \/ X_Step \/ X_Skip \/ X_WrapUp

StartFlow ==
    InitFlow /\ IdleAnalyze /\ IdleDriver /\ IdleFraming /\ IdleCapture /\ IdleTasmota
    /\ IdleMeasure /\ IdleSession /\ IdlePower /\ IdleFirmware

SpecFlow == StartFlow /\ [][NextFlow]_vars

WrapUpCalls == {i \in 1..Len(xlog) : xlog[i].kind = "wrap_up"}
StepsRun == {i \in 1..Len(xlog) : xlog[i].kind = "step"}
FailedSteps == {i \in StepsRun : xlog[i].code # "NO_FAILURE"}
KeyMissing ==
    \/ ~(RequiredConfig(xflow) \subseteq xconfig.config)
    \/ ~(RequiredSettings(xflow) \subseteq xconfig.settings)

\* wrap_up is called once, as the last thing, and no step follows a failed one
OneWrapUpAndStop ==
    /\ xpc = "returned" => WrapUpCalls = {Len(xlog)}
    /\ xpc # "returned" => WrapUpCalls = {}
    /\ \A i \in FailedSteps : \A j \in StepsRun : j <= i
    /\ KeyMissing => StepsRun = {}

\* the code of the first failing step, or NO_FAILURE
FirstFailure ==
    IF FailedSteps = {} THEN "NO_FAILURE"
    ELSE xlog[CHOOSE i \in FailedSteps : \A j \in FailedSteps : i <= j].code

====
